---- MODULE Spec2Model ----
(***************************************************************************)
(* Model of the content script of the AI Reply Generator browser           *)
(* extension (src/DEBUG.md, lines 70-759): platform detection, the scan    *)
(* that attaches one control per post, the mutation and navigation         *)
(* watchers with their timers, the click handler of a control with the     *)
(* generation request, and the writer that fills the reply box.            *)
(*                                                                         *)
(* The page is single threaded: every action below is one task of the      *)
(* event loop (a timer callback, an observer callback, an event handler,   *)
(* or the continuation of an async function after an await).               *)
(***************************************************************************)
EXTENDS Integers, Sequences, FiniteSets, TLC

\* ------------------------------------------------------------------ bounds
MaxClicks == 2         \* user activations in one run
MaxHostOps == 1        \* host-page changes of the document in one run of Spec
MaxScanHostOps == 2    \* host-page changes of the document in one run of SpecScan
MaxTimedHostOps == 1   \* host-page changes of the document in one run of SpecTimed
MaxStoreOps == 1       \* writes of external collaborators to the store in one run
MaxClientClicks == 1   \* activations by the user in SpecClient
MaxNav == 1            \* address changes in one run
MaxStoreClicks == 2    \* user activations in one run of SpecStore
MaxStoreWrites == 1    \* writes of external collaborators in one run of SpecStore
MaxRenderOps == 1
MaxLiveClicks == 2
MaxLiveHostOps == 1
MaxWatchOps == 1
MaxNestOps == 1
MaxMessages == 1      \* units the host page renders anew in one run of SpecRender

\* ------------------------------------------------------- program constants
InitialScanDelay == 1000   \* setTimeout(..., 1000) of the initial scan
DebounceDelay == 500       \* setTimeout(..., 500) of the structural watcher
NavRescanDelay == 500      \* setTimeout(..., 500) after an address change
MinPostHeight == 100       \* post.offsetHeight < 100
MinTweetTextLength == 10   \* tweetText.length < 10
MaxStatusLength == 50      \* error.message.length > 50
TickMs == DebounceDelay \div 2   \* granularity of the clock of SpecTimed

\* The page shows two post/tweet elements, in this order in the document.
Units == 1..2
LastUnit == CHOOSE u \in Units : \A v \in Units : v <= u
\* editable regions: box 0 lies outside every unit and after them, box LastUnit inside
\* the last unit; the first unit has no editable region of its own
Boxes == {0, LastUnit}
NoTimer == 0 - 1
\* the absent unit: a null or undefined postElement
NoUnit == 0
NoMatch == "<no element>"
NoBox == "<no box>"
Undefined == "<undefined>"

\* --------------------------------------------------------------- strings
ReasonPhrases == {"", "Unauthorized", "Forbidden", "Internal Server Error"}

\* String.prototype.length of the texts of the model
TextLength(t) ==
  CASE t = "" -> 0
    [] t = "   " -> 3
    [] t = "Nice" -> 4
    [] t = "Thank you" -> 9
    [] t = "Well said!" -> 10
    [] t = "Promoted card" -> 13
    [] t = "Great insight on scaling systems!" -> 33
    [] t = "Congrats!" -> 9
    [] t = "Totally agree - resilience over elegance." -> 41
    [] t = "Unauthorized" -> 12
    [] t = "Forbidden" -> 9
    [] t = "Internal Server Error" -> 21

\* String.prototype.trim
Trim(t) == IF t = "   " THEN "" ELSE t

\* String.prototype.includes on the host names and addresses of the model
Hostnames == {"www.linkedin.com", "x.com", "twitter.com", "netflix.com", "example.org"}
Urls == {"/home", "/user/status/1"}

Includes(s, frag) ==
  CASE frag = "linkedin" -> s = "www.linkedin.com"
    [] frag = "x.com" -> s \in {"x.com", "netflix.com"}
    [] frag = "twitter.com" -> s = "twitter.com"
    [] frag = "/status/" -> s = "/user/status/1"
    [] frag = "/i/web/status/" -> FALSE
    [] OTHER -> FALSE

\* ------------------------------------------------------------ the document
\* What the host page renders for one post/tweet element:
\*   height        offsetHeight / getBoundingClientRect().height
\*   innerText     the element's aggregated visible text
\*   locText       innerText of the first element the text locator matches
\*   articleText   innerText of the first descendant <article>
\*   actions       an element matching the interactions/actions locator exists
\*   childDivs     the element has direct <div> children
\*   parent        the unit inside which the element is rendered (a card inside a
\*                 post: both match the locator list), NoUnit for a top-level element
\* window.innerHeight of the viewport
InnerHeight == 1000

PostKind ==
  [height |-> 250, innerText |-> "Great insight on scaling systems!",
   locText |-> "Great insight on scaling systems!", articleText |-> NoMatch,
   actions |-> TRUE, childDivs |-> TRUE, parent |-> NoUnit]

UnitKinds ==
  { PostKind,
    [height |-> 50,  innerText |-> "Nice", locText |-> NoMatch, articleText |-> NoMatch,
     actions |-> FALSE, childDivs |-> FALSE, parent |-> NoUnit],
    [height |-> 400, innerText |-> "Promoted card", locText |-> "   ", articleText |-> NoMatch,
     actions |-> FALSE, childDivs |-> TRUE, parent |-> NoUnit],
    [height |-> 250, innerText |-> "Great insight on scaling systems!", locText |-> NoMatch,
     articleText |-> NoMatch, actions |-> FALSE, childDivs |-> FALSE, parent |-> NoUnit] }

\* What the host may render for a unit whose text the Content Extractor is asked for:
\* besides the kinds above, a unit without any text, a unit whose located element is
\* empty, and units with a descendant <article>.
ExtractKinds ==
  UnitKinds \cup
  { [height |-> 250, innerText |-> "", locText |-> NoMatch, articleText |-> NoMatch,
     actions |-> TRUE, childDivs |-> TRUE, parent |-> NoUnit],
    [height |-> 250, innerText |-> "", locText |-> "", articleText |-> "",
     actions |-> TRUE, childDivs |-> TRUE, parent |-> NoUnit],
    [height |-> 250, innerText |-> "Great insight on scaling systems!", locText |-> "",
     articleText |-> NoMatch, actions |-> TRUE, childDivs |-> TRUE, parent |-> NoUnit],
    [height |-> 250, innerText |-> "Great insight on scaling systems!", locText |-> NoMatch,
     articleText |-> "Nice", actions |-> TRUE, childDivs |-> TRUE, parent |-> NoUnit],
    [height |-> 250, innerText |-> "Great insight on scaling systems!", locText |-> "",
     articleText |-> "Nice", actions |-> TRUE, childDivs |-> TRUE, parent |-> NoUnit] }

VARIABLES
  hostname,          \* window.location.hostname
  url,               \* window.location.href
  lastUrl,           \* lastUrl of init()
  kind,              \* what the host renders for each unit
  inDoc,             \* the units that are in the document
  container,         \* units whose subtree holds a .ai-reply-button-container
  processedPosts,    \* the WeakSet processedPosts
  created,           \* controls created for each unit (createGenerateButton calls)
  skipped,           \* units that a filter of a scan has turned away so far
  ctl,               \* the control of each unit: disabled flag, spinner, styling, status text
  act,               \* running activations of each control, by the await they are suspended at
  cyc,               \* what the current activation cycle of each control has done so far
  store,             \* chrome.storage.local
  storageApi,        \* whether chrome.storage.local exists in this context
  boxText,           \* content of each editable region, NoBox when it does not exist
  initTimer,         \* the initial-scan timer: remaining ms or NoTimer
  mutationTimeout,   \* the debounce timer: remaining ms or NoTimer
  navTimers,         \* the rescan timers after address changes: remaining ms each
  sinceBatch,        \* ms since the last mutation batch, capped at DebounceDelay
  burst,             \* batches and debounced scans of the current burst
  pendingRecords,    \* the structural observer has mutation records to deliver
  extracted,         \* the last call of extractPostText: its argument and what it returned
  received,          \* the messages the dashboard bridge and the background worker were sent
  setQueue,          \* their calls of chrome.storage.local.set that have not completed
  popup,             \* what the popup shows
  budget             \* events left to the environment

vars == << hostname, url, lastUrl, kind, inDoc, container, processedPosts, created, skipped, ctl, act,
           cyc, store, storageApi, boxText, initTimer, mutationTimeout, navTimers,
           sinceBatch, burst, pendingRecords, extracted, received, setQueue, popup, budget >>

pageVars == << hostname, url, lastUrl, kind, inDoc >>
scanVars == << container, processedPosts, created, skipped, ctl >>
cycleVars == << act, cyc >>
storeVars == << store, storageApi >>
timerVars == << initTimer, mutationTimeout, navTimers >>
clockVars == << sinceBatch, burst >>
peerVars == << received, setQueue, popup >>

\* ------------------------------------------------------ Platform Detector
\* fault: the last return of detectPlatform yields "x" instead of "unknown"
detectPlatformDefaultX(h) ==
  IF Includes(h, "linkedin") THEN "linkedin" ELSE "x"

detectPlatform(h) ==
  IF Includes(h, "linkedin") THEN "linkedin"
  ELSE IF Includes(h, "x.com") \/ Includes(h, "twitter.com") THEN "x"
  ELSE "unknown"


\* ------------------------------------------------------- Control Factory
NoControl == [at |-> "none", disabled |-> FALSE, spinner |-> FALSE, bg |-> "default", status |-> ""]

\* createGenerateButton: icon shown, spinner hidden, default styling, empty status text
createGenerateButton(at) ==
  [at |-> at, disabled |-> FALSE, spinner |-> FALSE, bg |-> "default", status |-> ""]

\* ------------------------------------------------------------ Scan Engine
\* document.querySelectorAll: the matching elements in document order
RECURSIVE InOrder(_, _)
InOrder(S, n) ==
  IF n > LastUnit THEN << >>
  ELSE IF n \in S THEN << n >> \o InOrder(S, n + 1) ELSE InOrder(S, n + 1)

querySelectorAllUnits == InOrder(inDoc, 1)

\* fault: a single tweet of exactly 30% of the viewport height counts as a detail view
isTwitterDetailViewFromThirty ==
  IF Includes(url, "/status/") \/ Includes(url, "/i/web/status/") THEN TRUE
  ELSE LET mainArticles == querySelectorAllUnits IN
       IF Len(mainArticles) = 1
       THEN kind[mainArticles[1]].height * 10 >= InnerHeight * 3
       ELSE FALSE

isTwitterDetailView ==
  IF Includes(url, "/status/") \/ Includes(url, "/i/web/status/") THEN TRUE
  ELSE LET mainArticles == querySelectorAllUnits IN
       IF Len(mainArticles) = 1
       THEN kind[mainArticles[1]].height * 10 > InnerHeight * 3
       ELSE FALSE

\* fault: the skip test looks for the container in the unit's subtree only and does not
\* consult processedPosts
AlreadyHasButtonByDomOnly(u, st) == st.container[u]

\* post.querySelector(".ai-reply-button-container"): the subtree of the unit holds a
\* container: the unit's own, the one of a unit rendered inside it, or the one of its
\* parent when that was appended to the actions area of this unit
HoldsContainer(u, st) ==
  \/ st.container[u]
  \/ \E v \in inDoc : kind[v].parent = u /\ st.container[v]
  \/ \E p \in Units : kind[u].parent = p /\ st.container[p] /\ st.ctl[p].at = "nestedActions"

\* fault: the skip test looks at the unit's own container only, not at its whole subtree
AlreadyHasButtonOwnOnly(u, st) == u \in st.processed \/ st.container[u]

\* the skip test at the head of both forEach bodies
AlreadyHasButton(u, st) == u \in st.processed \/ HoldsContainer(u, st)

\* fault: the forEach bodies without processedPosts.add
AttachButtonWithoutMarking(u, st, at) ==
  [ processed |-> st.processed,
    created   |-> [st.created EXCEPT ![u] = @ + 1],
    ctl       |-> [st.ctl EXCEPT ![u] = createGenerateButton(at)],
    container |-> [st.container EXCEPT ![u] = TRUE],
    skipped   |-> st.skipped ]

\* fault: the forEach bodies create and insert the control first and mark the unit last
AttachStatementsMarkLast(u, st, at) ==
  LET s1 == [st EXCEPT !.created[u] = @ + 1, !.ctl[u] = createGenerateButton(at)]
      s2 == [s1 EXCEPT !.container[u] = TRUE]
      s3 == [s2 EXCEPT !.processed = @ \cup {u}]
  IN << s1, s2, s3 >>

\* the statements of both forEach bodies after the filters, as the scan state after each:
\* processedPosts.add; createGenerateButton and attachButtonClickHandler; appendChild
AttachStatements(u, st, at) ==
  LET s1 == [st EXCEPT !.processed = @ \cup {u}]
      s2 == [s1 EXCEPT !.created[u] = @ + 1, !.ctl[u] = createGenerateButton(at)]
      s3 == [s2 EXCEPT !.container[u] = TRUE]
  IN << s1, s2, s3 >>

\* the part of both forEach bodies after the filters: mark, create, bind, insert
AttachButton(u, st, at) ==
  LET after == AttachStatements(u, st, at) IN after[Len(after)]

\* post.querySelector returns the first match in document order: a unit rendered inside
\* the post lies in its body, before the post's own actions area and not as its last
\* child, so that an actions area of the nested unit is the first match
LinkedInInsertPoint(u) ==
  IF \E v \in inDoc : kind[v].parent = u /\ kind[v].actions THEN "nestedActions"
  ELSE IF kind[u].actions THEN "actions"
  ELSE IF kind[u].childDivs THEN "lastChild"
  ELSE "unit"

\* fault: the height filter marks the post it turns away as processed
ScanLinkedInPostMarksSkipped(u, st) ==
  IF AlreadyHasButton(u, st) THEN st
  ELSE IF kind[u].height < MinPostHeight
       THEN [st EXCEPT !.skipped = @ \cup {u}, !.processed = @ \cup {u}]
  ELSE AttachButton(u, st, LinkedInInsertPoint(u))

ScanLinkedInPost(u, st) ==
  IF AlreadyHasButton(u, st) THEN st
  ELSE IF kind[u].height < MinPostHeight THEN [st EXCEPT !.skipped = @ \cup {u}]
  ELSE AttachButton(u, st, LinkedInInsertPoint(u))

XInsertPoint(u) == IF kind[u].actions THEN "actions" ELSE "unit"

ScanTweet(u, st) ==
  IF AlreadyHasButton(u, st) THEN st
  ELSE IF TextLength(kind[u].innerText) < MinTweetTextLength
       THEN [st EXCEPT !.skipped = @ \cup {u}]
  ELSE AttachButton(u, st, XInsertPoint(u))

RECURSIVE ForEachPost(_, _, _)
ForEachPost(posts, st, platform) ==
  IF posts = << >> THEN st
  ELSE ForEachPost(Tail(posts),
                   IF platform = "linkedin" THEN ScanLinkedInPost(Head(posts), st)
                   ELSE ScanTweet(Head(posts), st),
                   platform)

\* fault: attachButtonsToPosts without the detail-view gate of the microblog branch
attachButtonsToPostsNoGate(st) ==
  LET platform == detectPlatform(hostname) IN
  IF platform \in {"linkedin", "x"} THEN ForEachPost(querySelectorAllUnits, st, platform)
  ELSE st

\* attachButtonsToPosts, as a function of the scan state
attachButtonsToPosts(st) ==
  LET platform == detectPlatform(hostname) IN
  IF platform = "linkedin" THEN ForEachPost(querySelectorAllUnits, st, platform)
  ELSE IF platform = "x"
       THEN IF ~isTwitterDetailView THEN st
            ELSE ForEachPost(querySelectorAllUnits, st, platform)
  ELSE st

ScanState ==
  [processed |-> processedPosts, created |-> created, ctl |-> ctl, container |-> container,
   skipped |-> skipped]


\* ------------------------------------------------------ Content Extractor
\* The text is a sequence of fragments (their concatenation): the status text of the
\* unit's own control is part of the unit's aggregated visible text.
Fragments(t) == IF t = "" THEN << >> ELSE << t >>

unitInnerText(u, cs) ==
  Fragments(kind[u].innerText) \o (IF container[u] THEN Fragments(cs[u].status) ELSE << >>)

\* what a call raises when it dereferences null
Thrown == << "<TypeError: Cannot read properties of null (reading 'querySelector')>" >>

\* extractPostText for an element: textElement?.innerText || ""
ExtractFromElement(u, cs) ==
  LET platform == detectPlatform(hostname) IN
  IF platform = "linkedin"
  THEN IF kind[u].locText # NoMatch THEN Fragments(kind[u].locText) ELSE unitInnerText(u, cs)
  ELSE IF platform = "x"
       THEN IF kind[u].locText # NoMatch THEN Fragments(kind[u].locText)
            ELSE IF kind[u].articleText # NoMatch THEN Fragments(kind[u].articleText)
            ELSE << >>
  ELSE << >>

\* fault: extractPostText without `if (!postElement) return ""`
extractPostTextNoGuard(u, cs) ==
  IF u = NoUnit
  THEN (IF detectPlatform(hostname) = "unknown" THEN << >> ELSE Thrown)
  ELSE ExtractFromElement(u, cs)

\* fault: extractPostText as a chain that goes on after an element without text and ends
\* with the unit's own text
extractPostTextChain(u, cs) ==
  IF u = NoUnit \/ detectPlatform(hostname) = "unknown" THEN << >>
  ELSE IF kind[u].locText \notin {NoMatch, ""} THEN Fragments(kind[u].locText)
  ELSE IF detectPlatform(hostname) = "x" /\ kind[u].articleText \notin {NoMatch, ""}
       THEN Fragments(kind[u].articleText)
  ELSE unitInnerText(u, cs)

\* extractPostText
extractPostText(u, cs) ==
  IF u = NoUnit THEN << >> ELSE ExtractFromElement(u, cs)

\* postText.trim() of a sequence of fragments is empty
TrimIsEmpty(text) == \A i \in 1..Len(text) : Trim(text[i]) = ""

\* ------------------------------------------------------------- the errors
\* An Error object: its message, and for `API error: ${status} ${statusText}` the two values
Err(msg) == [msg |-> msg, status |-> 0, statusText |-> ""]
NoError == Err("")
MsgExtract == "Could not extract post text."
MsgNoStorage == "Chrome storage API not available. Please reload the page and try again."
MsgInvalidated == "Extension context invalidated."
MsgLastError == "<chrome.runtime.lastError.message>"
MsgNoToken == "Authentication token not found. Please go to the dashboard and click \"Send Token to Extension\" first."
Msg401 == "Authentication failed. Your token may have expired. Please send a new token from the dashboard."
Msg402 == "Daily limit reached. Please upgrade your plan."
MsgApi == "API error: ${response.status} ${response.statusText}"
MsgNetwork == "Failed to fetch"
MsgJson == "Unexpected end of JSON input"
MsgNullResult == "Cannot read properties of null (reading 'reply')"
MsgNoReply == "Cannot read properties of undefined (reading 'substring')"

\* error.message.length
MessageLength(e) ==
  CASE e.msg = MsgExtract -> 28
    [] e.msg = MsgNoStorage -> 71
    [] e.msg = MsgInvalidated -> 30
    [] e.msg = MsgLastError -> 24
    [] e.msg = MsgNoToken -> 101
    [] e.msg = Msg401 -> 95
    [] e.msg = Msg402 -> 46
    [] e.msg = MsgApi -> 15 + TextLength(e.statusText)
    [] e.msg = MsgNetwork -> 15
    [] e.msg = MsgJson -> 28
    [] e.msg = MsgNullResult -> 48
    [] e.msg = MsgNoReply -> 57
    [] OTHER -> 0

\* ------------------------------------------------------ Generation Client
Tokens == {Undefined, "tokA"}
Tones == {Undefined, "value", "funny"}
EmojiSettings == {Undefined, "true", "false"}
Replies == {"Totally agree - resilience over elegance.", "Congrats!"}

\* what fetch settles with: a network failure, or a response with a status, a status
\* text and a body (json: what response.json() does with it; reply: data.reply)
Http(status, statusText, json, reply) ==
  [net |-> FALSE, status |-> status, statusText |-> statusText, json |-> json, reply |-> reply]

NetworkFailure ==
  [net |-> TRUE, status |-> 0, statusText |-> "", json |-> "none", reply |-> Undefined]

\* the answers the activation cycles of Spec are run against
Responses ==
  { NetworkFailure,
    Http(200, "", "object", "Congrats!"),
    Http(200, "", "object", Undefined),
    Http(200, "", "invalid", Undefined),
    Http(401, "Unauthorized", "object", Undefined),
    Http(500, "Internal Server Error", "invalid", Undefined) }

\* the answers the Generation Client is run against in SpecClient
Statuses == {200, 201, 204, 299, 300, 304, 400, 401, 402, 403, 404, 429, 500, 503}

AllResponses ==
  { NetworkFailure }
  \cup { Http(st, t, "invalid", Undefined) : st \in Statuses, t \in ReasonPhrases }
  \cup { Http(st, "", "null", Undefined) : st \in Statuses }
  \cup { Http(st, "", "object", r) : st \in Statuses, r \in Replies \cup {Undefined} }

\* response.ok
ResponseOk(r) == r.status >= 200 /\ r.status <= 299

\* fault: generateReply without the branch for status 402
ResponseErrorNoQuota(r) ==
  IF r.status = 401 THEN Err(Msg401)
  ELSE [msg |-> MsgApi, status |-> r.status, statusText |-> r.statusText]

\* the error thrown for a response that is not ok
ResponseError(r) ==
  IF r.status = 401 THEN Err(Msg401)
  ELSE IF r.status = 402 THEN Err(Msg402)
  ELSE [msg |-> MsgApi, status |-> r.status, statusText |-> r.statusText]

Endpoint(platform) ==
  IF platform = "x" THEN "https://replier.elcarainternal.lol/generate/twitter"
  ELSE "https://replier.elcarainternal.lol/generate/linkedin"

\* fault: the default tone is "value" on every platform
ToneOfDefaultValue(replyTone, platform) ==
  IF replyTone # Undefined THEN replyTone ELSE "value"

\* replyTone || (platform === "x" ? "funny" : "value")
ToneOf(replyTone, platform) ==
  IF replyTone # Undefined THEN replyTone
  ELSE IF platform = "x" THEN "funny" ELSE "value"

\* enableEmojis !== undefined ? enableEmojis : true
EmojisOf(enableEmojis) == IF enableEmojis # Undefined THEN enableEmojis ELSE "true"

NoRequest == [endpoint |-> "", token |-> Undefined, text |-> << >>, tone |-> "", emojiBool |-> ""]

\* the request generateReply issues with what the store read returned
Request(result, postText, platform) ==
  [ endpoint  |-> Endpoint(platform),
    token     |-> result.clerkToken,
    text      |-> postText,
    tone      |-> ToneOf(result.replyTone, platform),
    emojiBool |-> EmojisOf(result.enableEmojis) ]

\* fault: generateReply saves the tone it has chosen back to the store
StorageAfterGetSavesTone(st, platform) == [st EXCEPT !.replyTone = ToneOf(@, platform)]

\* chrome.storage.local after generateReply has used it: chrome.storage.local.get is the
\* only call the content script makes on it
StorageAfterGet(st, platform) == st

\* ------------------------------------------------------- Injection Writer
RECURSIVE FirstBox(_, _)
\* document.querySelector("[contenteditable='true'][role='textbox']"): the first editable
\* region of the document; the units come first, box 0 lies after them
FirstBox(bt, n) ==
  IF n > LastUnit THEN (IF bt[0] # NoBox THEN 0 ELSE -1)
  ELSE IF n \in Boxes /\ bt[n] # NoBox /\ n \in inDoc THEN n ELSE FirstBox(bt, n + 1)

\* fault: fillReplyBox searches the post only and has no document-wide fallback
LocateBoxInPostOnly(u, bt) ==
  IF detectPlatform(hostname) = "linkedin"
  THEN (IF u \in Boxes /\ bt[u] # NoBox THEN u ELSE -1)
  ELSE FirstBox(bt, 1)

\* the box fillReplyBox locates, -1 when there is none
LocateBox(u, bt) ==
  IF detectPlatform(hostname) = "linkedin" /\ u \in Boxes /\ bt[u] # NoBox THEN u
  ELSE FirstBox(bt, 1)

BoxInDocument(b) == b = 0 \/ b \in inDoc


\* ------------------------------------------------------- Reply Controller
\* The state a control shows: the spinner replaces the icon while generating; the
\* success and the error styling stay until the timed reset restores the default.
ControlState(c) ==
  IF c.spinner THEN "Generating"
  ELSE IF c.bg = "success" THEN "Success"
  ELSE IF c.bg = "error" THEN "Error"
  ELSE "Idle"

\* "Start loading state"
Loading(c) == [c EXCEPT !.disabled = TRUE, !.spinner = TRUE, !.status = "Generating..."]

\* fault: the success block re-enables the button at once instead of leaving it to the timer
SuccessLookReenables(c) ==
  [c EXCEPT !.spinner = FALSE, !.bg = "success", !.status = "Reply generated!", !.disabled = FALSE]

\* "Success state" (the status text is a check mark and "Reply generated!")
SuccessLook(c) == [c EXCEPT !.spinner = FALSE, !.bg = "success", !.status = "Reply generated!"]

\* error.message.length > 50 ? "Error - check console" : error.message
DisplayMessage(e) ==
  IF MessageLength(e) > MaxStatusLength THEN "Error - check console" ELSE e.msg

\* "Error state"
ErrorLook(c, e) == [c EXCEPT !.spinner = FALSE, !.bg = "error", !.status = DisplayMessage(e)]

\* fault: the reset timer re-enables the button and clears the status text but leaves the
\* success/error colour in place
ResetLookKeepsStyling(c) == [c EXCEPT !.disabled = FALSE, !.status = ""]

\* the callback of both reset timers
ResetLook(c) == [c EXCEPT !.disabled = FALSE, !.bg = "default", !.status = ""]

MaxHist == 6
\* the states a control has shown in its current cycle
Record(h, c) ==
  IF ControlState(c) = h[Len(h)] \/ Len(h) >= MaxHist THEN h ELSE Append(h, ControlState(c))

NoActivation == [reading |-> 0, fetching |-> 0, pasting |-> 0, resets |-> 0]

NoCycle ==
  [ hist |-> << "Idle" >>, extracts |-> 0, reads |-> 0, fetches |-> 0, fills |-> 0,
    text |-> << >>, tokenRead |-> "<not read>", toneRead |-> "<not read>", request |-> NoRequest, err |-> NoError,
    httpStatus |-> -1, notices |-> {}, box |-> -1, reply |-> Undefined, uncaught |-> FALSE,
    paste |-> "none", typed |-> << >> ]

\* A handler run: the control (c), the cycle record (y) and the activations (a) of one
\* unit, as the statements of the click handler change them.
Run(c, y, a) == [c |-> c, y |-> y, a |-> a]

\* fault: the catch block without its setTimeout: the error look is never reset
CatchBlockNoTimer(r, e) ==
  LET c == ErrorLook(r.c, e) IN
  Run(c, [r.y EXCEPT !.err = e, !.notices = @ \cup {"token"}, !.hist = Record(@, c)], r.a)

\* the catch block of the click handler: error styling, the blocking notice, the 3000 ms timer
CatchBlock(r, e) ==
  LET c == ErrorLook(r.c, e) IN
  Run(c,
      [r.y EXCEPT !.err = e, !.notices = @ \cup {"token"}, !.hist = Record(@, c)],
      [r.a EXCEPT !.resets = @ + 1])

\* fault: the throw statement lies outside the try block: the handler's promise rejects,
\* the control keeps its loading look and no reset timer is set
ThrowPastCatch(r, e) == [r EXCEPT !.y.err = e, !.y.uncaught = TRUE]

\* a throw statement of the click handler or of a function it awaits: every one of them
\* lies inside the try block of the handler
Throw(r, e) == CatchBlock(r, e)

\* the end of the try block: success styling and the 2000 ms timer
SuccessBlock(r) ==
  LET c == SuccessLook(r.c) IN
  Run(c, [r.y EXCEPT !.hist = Record(@, c)], [r.a EXCEPT !.resets = @ + 1])

\* fault: the handler calls generateReply first and leaves the extraction for later
ClickHandlerExtractLater(u) ==
  LET c1 == Loading(ctl[u])
      y1 == [NoCycle EXCEPT !.hist = Record(<< ControlState(ctl[u]) >>, c1)]
      r1 == Run(c1, y1, act[u])
  IN IF storageApi = "missing" THEN CatchBlock(r1, Err(MsgNoStorage))
     ELSE IF storageApi = "invalidated" THEN CatchBlock(r1, Err(MsgInvalidated))
     ELSE Run(c1, y1, [act[u] EXCEPT !.reading = @ + 1])

\* fault: the handler passes whatever text it extracted on to generateReply, blank or not
ClickHandlerNoBlankTest(u) ==
  LET c1   == Loading(ctl[u])
      text == extractPostText(u, [ctl EXCEPT ![u] = c1])
      y1   == [NoCycle EXCEPT !.hist = Record(<< ControlState(ctl[u]) >>, c1),
                              !.extracts = 1, !.text = text]
      r1   == Run(c1, y1, act[u])
  IN IF storageApi = "missing" THEN CatchBlock(r1, Err(MsgNoStorage))
     ELSE IF storageApi = "invalidated" THEN CatchBlock(r1, Err(MsgInvalidated))
     ELSE Run(c1, y1, [act[u] EXCEPT !.reading = @ + 1])

\* fault: a missing storage interface is reported with the error of a missing credential
ClickHandlerStorageAsToken(u) ==
  LET c1   == Loading(ctl[u])
      text == extractPostText(u, [ctl EXCEPT ![u] = c1])
      y1   == [NoCycle EXCEPT !.hist = Record(<< ControlState(ctl[u]) >>, c1),
                              !.extracts = 1, !.text = text]
      r1   == Run(c1, y1, act[u])
  IN IF TrimIsEmpty(text) THEN CatchBlock(r1, Err(MsgExtract))
     ELSE IF storageApi = "missing" THEN CatchBlock(r1, Err(MsgNoToken))
     ELSE IF storageApi = "invalidated" THEN CatchBlock(r1, Err(MsgInvalidated))
     ELSE Run(c1, y1, [act[u] EXCEPT !.reading = @ + 1])

\* the click handler up to its first suspension: loading state, extraction, and
\* generateReply up to chrome.storage.local.get
ClickHandler(u) ==
  LET c1   == Loading(ctl[u])
      text == extractPostText(u, [ctl EXCEPT ![u] = c1])
      y1   == [NoCycle EXCEPT !.hist = Record(<< ControlState(ctl[u]) >>, c1),
                              !.extracts = 1, !.text = text]
      r1   == Run(c1, y1, act[u])
  IN IF TrimIsEmpty(text) THEN Throw(r1, Err(MsgExtract))
     ELSE IF storageApi = "missing" THEN Throw(r1, Err(MsgNoStorage))
     ELSE IF storageApi = "invalidated" THEN Throw(r1, Err(MsgInvalidated))
     ELSE Run(c1, y1, [act[u] EXCEPT !.reading = @ + 1])

\* fault: generateReply keeps the values of the store from one call to the next: while
\* another control's request is known, its credential and preferences are used again
StorageCallbackCached(u, lastError) ==
  LET r0 == Run(ctl[u], [cyc[u] EXCEPT !.reads = @ + 1],
                [act[u] EXCEPT !.reading = @ - 1])
      known == { v \in Units \ {u} : cyc[v].request # NoRequest }
      result == IF known = {} THEN store
                ELSE LET q == cyc[CHOOSE v \in known : TRUE].request IN
                     [clerkToken |-> q.token, replyTone |-> q.tone, enableEmojis |-> q.emojiBool]
  IN IF lastError THEN CatchBlock(r0, Err(MsgLastError))
     ELSE LET r1 == [r0 EXCEPT !.y.tokenRead = result.clerkToken,
                               !.y.toneRead = result.replyTone] IN
          IF result.clerkToken = Undefined THEN CatchBlock(r1, Err(MsgNoToken))
          ELSE [r1 EXCEPT !.y.request = Request(result, cyc[u].text, detectPlatform(hostname)),
                          !.y.fetches = @ + 1,
                          !.a.fetching = @ + 1]

\* fault: generateReply without the `if (!clerkToken)` test: the request is issued with
\* whatever the store returned
StorageCallbackNoTokenCheck(u, lastError) ==
  LET r0 == Run(ctl[u], [cyc[u] EXCEPT !.reads = @ + 1],
                [act[u] EXCEPT !.reading = @ - 1])
  IN IF lastError THEN CatchBlock(r0, Err(MsgLastError))
     ELSE [r0 EXCEPT !.y.tokenRead = store.clerkToken, !.y.toneRead = store.replyTone,
                     !.y.request = Request(store, cyc[u].text, detectPlatform(hostname)),
                     !.y.fetches = @ + 1,
                     !.a.fetching = @ + 1]

\* the callback of chrome.storage.local.get and generateReply up to fetch
StorageCallback(u, lastError) ==
  LET r0 == Run(ctl[u], [cyc[u] EXCEPT !.reads = @ + 1],
                [act[u] EXCEPT !.reading = @ - 1])
  IN IF lastError THEN Throw(r0, Err(MsgLastError))
     ELSE LET r1 == [r0 EXCEPT !.y.tokenRead = store.clerkToken,
                               !.y.toneRead = store.replyTone] IN
          IF store.clerkToken = Undefined THEN Throw(r1, Err(MsgNoToken))
          ELSE [r1 EXCEPT !.y.request = Request(store, cyc[u].text, detectPlatform(hostname)),
                          !.y.fetches = @ + 1,
                          !.a.fetching = @ + 1]

\* fillReplyBox up to its first suspension, with its effect on the editable regions
\*   box: the located region or -1; wrote: the region was assigned the text;
\*   waits: the writer is suspended in its 50 ms wait; notice: the alert was shown
fillReplyBox(u, reply) ==
  LET b == LocateBox(u, boxText) IN
  IF detectPlatform(hostname) = "linkedin"
  THEN [box |-> b, wrote |-> b # -1, waits |-> FALSE, notice |-> b = -1]
  ELSE [box |-> b, wrote |-> FALSE, waits |-> b # -1, notice |-> b = -1]

\* fault: the handler passes data.reply to the writer without the substring call that
\* throws on a missing reply
ResponseHandlerNoReplyTest(u, resp) ==
  LET r0 == Run(ctl[u], [cyc[u] EXCEPT !.httpStatus = IF resp.net THEN -1 ELSE resp.status],
                [act[u] EXCEPT !.fetching = @ - 1]) IN
  IF resp.net THEN Throw(r0, Err(MsgNetwork))
  ELSE IF ~ResponseOk(resp) THEN Throw(r0, ResponseError(resp))
  ELSE IF resp.json = "invalid" THEN Throw(r0, Err(MsgJson))
  ELSE IF resp.json = "null" THEN Throw(r0, Err(MsgNullResult))
  ELSE LET f  == fillReplyBox(u, resp.reply)
           r1 == [r0 EXCEPT !.y.fills = @ + 1, !.y.box = f.box, !.y.reply = resp.reply,
                            !.y.notices = IF f.notice THEN @ \cup {"input"} ELSE @]
       IN IF f.waits THEN [r1 EXCEPT !.a.pasting = @ + 1] ELSE SuccessBlock(r1)

\* the click handler from the settling of fetch to its next suspension
ResponseHandler(u, resp) ==
  LET r0 == Run(ctl[u], [cyc[u] EXCEPT !.httpStatus = IF resp.net THEN -1 ELSE resp.status],
                [act[u] EXCEPT !.fetching = @ - 1]) IN
  IF resp.net THEN Throw(r0, Err(MsgNetwork))
  ELSE IF ~ResponseOk(resp) THEN Throw(r0, ResponseError(resp))
  ELSE IF resp.json = "invalid" THEN Throw(r0, Err(MsgJson))
  ELSE IF resp.json = "null" THEN Throw(r0, Err(MsgNullResult))
  ELSE IF resp.reply = Undefined THEN Throw(r0, Err(MsgNoReply))
  ELSE LET f  == fillReplyBox(u, resp.reply)
           r1 == [r0 EXCEPT !.y.fills = @ + 1, !.y.box = f.box, !.y.reply = resp.reply,
                            !.y.notices = IF f.notice THEN @ \cup {"input"} ELSE @]
       IN IF f.waits THEN [r1 EXCEPT !.a.pasting = @ + 1] ELSE SuccessBlock(r1)

\* the box the response handler assigns, -1 when it assigns none
ResponseWrites(u, resp) ==
  IF ~resp.net /\ ResponseOk(resp) /\ resp.json = "object" /\ resp.reply # Undefined
     /\ fillReplyBox(u, resp.reply).wrote
  THEN fillReplyBox(u, resp.reply).box ELSE -1

\* fillReplyBox on the microblog after its 50 ms wait: the synthetic paste, and the typed
\* fallback when the paste throws; then the end of the try block of the click handler
PasteOutcomes == {"inserted", "ignored", "throws-inserted", "throws-ignored"}

\* for (const char of generatedText): the characters of a text, each with its position
Chars(t) == [i \in 1..TextLength(t) |-> << t, i >>]

\* paste: how the try block ended; typed: the data of the beforeinput events the catch
\* block dispatched. The result of dispatchEvent is not read: the catch block is the
\* only way to the typed fallback.
PasteHandler(u, outcome) ==
  SuccessBlock(Run(ctl[u],
                   [cyc[u] EXCEPT !.paste = outcome,
                                  !.typed = IF outcome \in {"throws-inserted", "throws-ignored"}
                                            THEN Chars(cyc[u].reply) ELSE << >>],
                   [act[u] EXCEPT !.pasting = @ - 1]))

\* the callback of a reset timer; the cycle is over, and of its record the states shown
\* are kept
TimerHandler(u) ==
  LET c == ResetLook(ctl[u]) IN
  Run(c, [NoCycle EXCEPT !.hist = Record(cyc[u].hist, c)], [act[u] EXCEPT !.resets = @ - 1])


\* ------------------------------------------------------------- the timers
MaxBurst == 3    \* batches counted in one burst

Min(a, b) == IF a < b THEN a ELSE b
Max(a, b) == IF a > b THEN a ELSE b

\* A timer has run down. Without a clock (timed = FALSE) a pending timer may fire at
\* any moment; with the clock it fires when its delay has elapsed.
Due(r, timed) == IF timed THEN r = 0 ELSE r # NoTimer

SomeTimerDue ==
  \/ initTimer = 0
  \/ mutationTimeout = 0
  \/ (navTimers # << >> /\ navTimers[1] = 0)

\* Timer tasks run as soon as they are due: with the clock, the host page and the user
\* act between timer tasks, not at the instant one is due.
EnvMayAct(timed) == ~pendingRecords /\ (timed => ~SomeTimerDue)

Elapse(r) == IF r = NoTimer THEN NoTimer ELSE Max(0, r - TickMs)

\* the passage of TickMs milliseconds
Tick ==
  /\ ~pendingRecords
  /\ ~SomeTimerDue
  /\ \/ initTimer # NoTimer
     \/ mutationTimeout # NoTimer
     \/ navTimers # << >>
     \/ sinceBatch < DebounceDelay
  /\ initTimer' = Elapse(initTimer)
  /\ mutationTimeout' = Elapse(mutationTimeout)
  /\ navTimers' = [i \in 1..Len(navTimers) |-> Elapse(navTimers[i])]
  /\ sinceBatch' = Min(DebounceDelay, sinceBatch + TickMs)
  /\ UNCHANGED << peerVars, extracted, pageVars, scanVars, cycleVars, storeVars, boxText, burst, pendingRecords, budget >>

\* --------------------------------------------------------- Change Watcher
\* fault: the callback leaves a pending timer alone instead of clearing and resetting it
ObserverCallbackNoReschedule(timed) ==
  /\ pendingRecords
  /\ pendingRecords' = FALSE
  /\ mutationTimeout' = IF mutationTimeout # NoTimer THEN mutationTimeout ELSE DebounceDelay
  /\ IF timed
     THEN /\ sinceBatch' = 0
          /\ burst' = IF burst.batches = 0 \/ sinceBatch >= DebounceDelay
                      THEN [batches |-> 1, scans |-> 0, waited |-> -1]
                      ELSE [burst EXCEPT !.batches = Min(@ + 1, MaxBurst)]
     ELSE UNCHANGED clockVars
  /\ UNCHANGED << peerVars, extracted, pageVars, scanVars, cycleVars, storeVars, boxText, initTimer, navTimers, budget >>

\* fault: the callback takes the records and sets no timer
ObserverCallbackSetsNoTimer(timed) ==
  /\ pendingRecords
  /\ pendingRecords' = FALSE
  /\ UNCHANGED << peerVars, extracted, pageVars, scanVars, cycleVars, storeVars, boxText, timerVars, clockVars, budget >>

\* the callback of the structural MutationObserver: clearTimeout, setTimeout(scan, 500)
ObserverCallback(timed) ==
  /\ pendingRecords
  /\ pendingRecords' = FALSE
  /\ mutationTimeout' = DebounceDelay
  /\ IF timed
     THEN /\ sinceBatch' = 0
          /\ burst' = IF burst.batches = 0 \/ sinceBatch >= DebounceDelay
                      THEN [batches |-> 1, scans |-> 0, waited |-> -1]
                      ELSE [burst EXCEPT !.batches = Min(@ + 1, MaxBurst)]
     ELSE UNCHANGED clockVars
  /\ UNCHANGED << peerVars, extracted, pageVars, scanVars, cycleVars, storeVars, boxText, initTimer, navTimers, budget >>

\* fault: a scan that changes the document on every run, whether it attaches a control
\* or not
RunScanAlwaysMutates ==
  LET st == attachButtonsToPosts(ScanState) IN
  /\ processedPosts' = st.processed
  /\ created' = st.created
  /\ skipped' = st.skipped
  /\ ctl' = st.ctl
  /\ container' = st.container
  /\ pendingRecords' = TRUE

\* one run of attachButtonsToPosts; inserting a control is a mutation the structural
\* observer records
RunScan ==
  LET st == attachButtonsToPosts(ScanState) IN
  /\ processedPosts' = st.processed
  /\ created' = st.created
  /\ skipped' = st.skipped
  /\ ctl' = st.ctl
  /\ container' = st.container
  /\ pendingRecords' = (st.container # container)

\* the timer of the initial scan
InitialScan(timed) ==
  /\ ~pendingRecords
  /\ Due(initTimer, timed)
  /\ initTimer' = NoTimer
  /\ RunScan
  /\ UNCHANGED << peerVars, extracted, pageVars, cycleVars, storeVars, boxText, mutationTimeout, navTimers,
                  clockVars, budget >>

\* the debounce timer of the structural watcher
DebouncedScan(timed) ==
  /\ ~pendingRecords
  /\ Due(mutationTimeout, timed)
  /\ mutationTimeout' = NoTimer
  /\ RunScan
  /\ IF timed
     THEN burst' = [burst EXCEPT !.scans = Min(@ + 1, MaxBurst), !.waited = sinceBatch]
     ELSE UNCHANGED burst
  /\ UNCHANGED << peerVars, extracted, pageVars, cycleVars, storeVars, boxText, initTimer, navTimers,
                  sinceBatch, budget >>

\* processedPosts.clear?.(): a WeakSet has no clear method, so the optional call does
\* nothing and the set keeps its members
WeakSetClear(set) == set

\* the rescan timer set after an address change
NavRescan(timed) ==
  /\ ~pendingRecords
  /\ navTimers # << >>
  /\ Due(navTimers[1], timed)
  /\ navTimers' = Tail(navTimers)
  /\ RunScan
  /\ UNCHANGED << peerVars, extracted, pageVars, cycleVars, storeVars, boxText, initTimer, mutationTimeout,
                  clockVars, budget >>

\* the host page changes the address (history.pushState)
PushState(timed, newUrl) ==
  /\ EnvMayAct(timed)
  /\ detectPlatform(hostname) = "x"
  /\ budget.nav > 0
  /\ newUrl # url
  /\ url' = newUrl
  /\ budget' = [budget EXCEPT !.nav = @ - 1]
  /\ UNCHANGED << peerVars, extracted, hostname, lastUrl, kind, inDoc, scanVars, cycleVars, storeVars, boxText,
                  timerVars, clockVars, pendingRecords >>

\* the callback of urlObserver, on a mutation of some href attribute
HrefMutation(timed) ==
  /\ EnvMayAct(timed)
  /\ detectPlatform(hostname) = "x"
  /\ url # lastUrl
  /\ lastUrl' = url
  /\ processedPosts' = WeakSetClear(processedPosts)
  /\ navTimers' = Append(navTimers, NavRescanDelay)
  /\ UNCHANGED << peerVars, extracted, hostname, url, kind, inDoc, container, created, skipped, ctl, cycleVars, storeVars,
                  boxText, initTimer, mutationTimeout, clockVars, pendingRecords, budget >>

\* back/forward navigation and the popstate listener
PopState(timed, newUrl) ==
  /\ EnvMayAct(timed)
  /\ detectPlatform(hostname) = "x"
  /\ budget.nav > 0
  /\ newUrl # url
  /\ url' = newUrl
  /\ budget' = [budget EXCEPT !.nav = @ - 1]
  /\ processedPosts' = WeakSetClear(processedPosts)
  /\ navTimers' = Append(navTimers, NavRescanDelay)
  /\ UNCHANGED << peerVars, extracted, hostname, lastUrl, kind, inDoc, container, created, skipped, ctl, cycleVars,
                  storeVars, boxText, initTimer, mutationTimeout, clockVars, pendingRecords >>

\* ---------------------------------------------------------- the host page
HostOp == budget.hostOps > 0 /\ budget' = [budget EXCEPT !.hostOps = @ - 1]

\* the host page adds a post/tweet element to the document
HostAddsUnit(timed, u) ==
  /\ EnvMayAct(timed) /\ HostOp
  /\ u \notin inDoc
  /\ inDoc' = inDoc \cup {u}
  /\ pendingRecords' = TRUE
  /\ UNCHANGED << peerVars, extracted, hostname, url, lastUrl, kind, scanVars, cycleVars, storeVars, boxText,
                  timerVars, clockVars >>

\* the host page removes a post/tweet element from the document
HostRemovesUnit(timed, u) ==
  /\ EnvMayAct(timed) /\ HostOp
  /\ u \in inDoc
  /\ inDoc' = inDoc \ {u}
  /\ pendingRecords' = TRUE
  /\ UNCHANGED << peerVars, extracted, hostname, url, lastUrl, kind, scanVars, cycleVars, storeVars, boxText,
                  timerVars, clockVars >>

\* the host page re-renders a unit and drops the injected control from it
HostRemovesControl(timed, u) ==
  /\ EnvMayAct(timed) /\ HostOp
  /\ container[u]
  /\ container' = [container EXCEPT ![u] = FALSE]
  /\ pendingRecords' = (u \in inDoc)
  /\ UNCHANGED << peerVars, extracted, pageVars, processedPosts, created, skipped, ctl, cycleVars, storeVars, boxText,
                  timerVars, clockVars >>

\* the host page renders a unit anew: its height and its text change; records: the change
\* adds or removes nodes (a change of layout alone gives the observer nothing)
HostRendersUnit(timed, u, k, records) ==
  /\ EnvMayAct(timed) /\ HostOp
  /\ kind[u] # k
  /\ kind' = [kind EXCEPT ![u] = k]
  /\ pendingRecords' = (records /\ u \in inDoc)
  /\ UNCHANGED << peerVars, extracted, hostname, url, lastUrl, inDoc, scanVars, cycleVars, storeVars, boxText,
                  timerVars, clockVars >>

\* an editable region appears (empty) or disappears
HostTogglesBox(timed, b) ==
  /\ EnvMayAct(timed) /\ HostOp
  /\ boxText' = [boxText EXCEPT ![b] = IF @ = NoBox THEN "" ELSE NoBox]
  /\ pendingRecords' = BoxInDocument(b)
  /\ UNCHANGED << peerVars, extracted, pageVars, scanVars, cycleVars, storeVars, timerVars, clockVars >>

\* the host page adds or removes nodes that are no part of a unit
HostMutatesElsewhere(timed) ==
  /\ EnvMayAct(timed)
  /\ pendingRecords' = TRUE
  /\ UNCHANGED << peerVars, extracted, pageVars, scanVars, cycleVars, storeVars, boxText, timerVars, clockVars, budget >>

\* ------------------------------------------------- the persisted store
\* an external collaborator (popup, dashboard bridge, background worker) writes one key;
\* none of them removes the credential
ExternalStoreWrite(key, value) ==
  /\ ~pendingRecords
  /\ budget.storeOps > 0
  /\ store[key] # value
  /\ store' = [store EXCEPT ![key] = value]
  /\ budget' = [budget EXCEPT !.storeOps = @ - 1]
  /\ UNCHANGED << peerVars, extracted, pageVars, scanVars, cycleVars, storageApi, boxText, timerVars, clockVars,
                  pendingRecords >>

\* the extension is reloaded or removed: the storage interface of this context goes away
ContextInvalidated(how) ==
  /\ ~pendingRecords
  /\ budget.storeOps > 0
  /\ storageApi = "ok"
  /\ storageApi' = how
  /\ budget' = [budget EXCEPT !.storeOps = @ - 1]
  /\ UNCHANGED << peerVars, extracted, pageVars, scanVars, cycleVars, store, boxText, timerVars, clockVars,
                  pendingRecords >>


\* -------------------------------------------------- the activation cycle
\* the control's elements are in the document, so that the structural observer records
\* the changes of its status text
ControlInDocument(u) == container[u] /\ u \in inDoc

\* fault: the handler styles a button shared by all controls instead of its own
ApplyToAll(u, r) ==
  /\ ctl' = [v \in Units |-> IF created[v] > 0 THEN r.c ELSE ctl[v]]
  /\ cyc' = [cyc EXCEPT ![u] = r.y]
  /\ act' = [act EXCEPT ![u] = r.a]

Apply(u, r) ==
  /\ ctl' = [ctl EXCEPT ![u] = r.c]
  /\ cyc' = [cyc EXCEPT ![u] = r.y]
  /\ act' = [act EXCEPT ![u] = r.a]

\* fault: the handler never disables the button, so that a press is accepted at any time
ClickableWhileDisabled(u) == ControlInDocument(u) /\ created[u] > 0

\* a user can press the button of a control that is in the document and not disabled
Clickable(u) == ControlInDocument(u) /\ created[u] > 0 /\ ~ctl[u].disabled

\* the user activates the control of unit u
Click(u) ==
  /\ ~pendingRecords
  /\ budget.clicks > 0
  /\ Clickable(u)
  /\ Apply(u, ClickHandler(u))
  /\ budget' = [budget EXCEPT !.clicks = @ - 1]
  /\ pendingRecords' = TRUE
  /\ UNCHANGED << peerVars, extracted, pageVars, container, processedPosts, created, skipped, storeVars, boxText,
                  timerVars, clockVars >>

\* chrome.storage.local.get answers the activation of unit u
StorageAnswers(u, lastError) ==
  /\ ~pendingRecords
  /\ act[u].reading > 0
  /\ Apply(u, StorageCallback(u, lastError))
  /\ store' = StorageAfterGet(store, detectPlatform(hostname))
  /\ pendingRecords' = (ControlInDocument(u) /\ ctl'[u].status # ctl[u].status)
  /\ UNCHANGED << peerVars, extracted, pageVars, container, processedPosts, created, skipped, storageApi, boxText,
                  timerVars, clockVars, budget >>

\* the request of unit u settles
FetchSettles(u, resp) ==
  /\ ~pendingRecords
  /\ act[u].fetching > 0
  /\ Apply(u, ResponseHandler(u, resp))
  /\ LET b == ResponseWrites(u, resp) IN
     /\ boxText' = IF b # -1 THEN [boxText EXCEPT ![b] = resp.reply] ELSE boxText
     /\ pendingRecords' = \/ (ControlInDocument(u) /\ ctl'[u].status # ctl[u].status)
                          \/ (b # -1 /\ BoxInDocument(b))
  /\ UNCHANGED << peerVars, extracted, pageVars, container, processedPosts, created, skipped, storeVars,
                  timerVars, clockVars, budget >>

\* the 50 ms wait of fillReplyBox on the microblog is over: the paste is dispatched to
\* the composer located before the wait; the host inserts the text or ignores the events
PasteSettles(u, outcome) ==
  /\ ~pendingRecords
  /\ act[u].pasting > 0
  /\ Apply(u, PasteHandler(u, outcome))
  /\ LET b == cyc[u].box
         inserted == outcome \in {"inserted", "throws-inserted"} /\ boxText[b] # NoBox
     IN /\ boxText' = IF inserted THEN [boxText EXCEPT ![b] = cyc[u].reply] ELSE boxText
        /\ pendingRecords' = \/ ControlInDocument(u)
                             \/ (inserted /\ BoxInDocument(b))
  /\ UNCHANGED << peerVars, extracted, pageVars, container, processedPosts, created, skipped, storeVars,
                  timerVars, clockVars, budget >>

\* the 2000 ms timer after a success or the 3000 ms timer after an error fires
ResetTimer(u) ==
  /\ ~pendingRecords
  /\ act[u].resets > 0
  /\ Apply(u, TimerHandler(u))
  /\ pendingRecords' = (ControlInDocument(u) /\ ctl[u].status # "")
  /\ UNCHANGED << peerVars, extracted, pageVars, container, processedPosts, created, skipped, storeVars, boxText,
                  timerVars, clockVars, budget >>

\* ------------------------------- dashboard bridge, background worker, popup
\* window.location.origin of the dashboard page, and another origin
DashboardOrigin == "https://replydash.app"
Origins == {DashboardOrigin, "https://other.example"}

\* What a page may send: null, or an object with a type, an action and a token. A token is
\* absent, the empty string, a value that is no string (a number), or a string:
\* one without a dot, and one of three segments.
Null == [type |-> "<null>", action |-> "<null>", token |-> Undefined]
NonString == "<number>"
MessageTokens == {Undefined, "", NonString, "opaque-token", "hdr.payload.sig"}

MessageData ==
  {Null} \cup [type : {"REPLIER_EXTENSION", "OTHER"},
               action : {"STORE_TOKEN", "storeToken", "CHECK_TOKEN"},
               token : MessageTokens]

\* ToBoolean of a token
Truthy(t) == t \notin {Undefined, ""}

\* what a listener did with a message: it threw, it called chrome.storage.local.set with
\* a token (Undefined: no call), it called sendResponse (external messages only)
Handled(threw, token, answer) == [threw |-> threw, set |-> token, answer |-> answer]

\* fault: the listener of the bridge without the test of event.origin
BridgeListenerAnyOrigin(origin, data) ==
  IF data = Null THEN Handled(TRUE, Undefined, "")
  ELSE IF data.type # "REPLIER_EXTENSION" THEN Handled(FALSE, Undefined, "")
  ELSE IF data.action = "STORE_TOKEN" /\ Truthy(data.token)
       THEN IF data.token = NonString THEN Handled(TRUE, Undefined, "")
            ELSE Handled(FALSE, data.token, "")
  ELSE Handled(FALSE, Undefined, "")

\* the message listener of the dashboard bridge, up to its return. Destructuring null
\* throws; token.substring throws for a token that is no string.
BridgeListener(origin, data) ==
  IF origin # DashboardOrigin THEN Handled(FALSE, Undefined, "")
  ELSE IF data = Null THEN Handled(TRUE, Undefined, "")
  ELSE IF data.type # "REPLIER_EXTENSION" THEN Handled(FALSE, Undefined, "")
  ELSE IF data.action = "STORE_TOKEN" /\ Truthy(data.token)
       THEN IF data.token = NonString THEN Handled(TRUE, Undefined, "")
            ELSE Handled(FALSE, data.token, "")
  ELSE Handled(FALSE, Undefined, "")

\* the onMessageExternal listener of the background worker, up to its return. The log
\* line calls request?.token?.substring, which throws for a token that is no string;
\* request.action throws for null.
ExternalListener(origin, data) ==
  IF data # Null /\ data.token = NonString THEN Handled(TRUE, Undefined, "")
  ELSE IF data = Null THEN Handled(TRUE, Undefined, "")
  ELSE IF data.action = "storeToken" /\ Truthy(data.token) THEN Handled(FALSE, data.token, "")
  ELSE Handled(FALSE, Undefined, "Unknown action")

\* a message arrives: at the bridge (via = "bridge", a message event of the dashboard
\* window) or at the background worker (via = "external"). The message is kept with
\* what its listener did, with the state of the write it issued and with the calls of
\* sendResponse made for it.
Receive(via, origin, data) ==
  LET h == IF via = "bridge" THEN BridgeListener(origin, data) ELSE ExternalListener(origin, data) IN
  /\ Len(received) < MaxMessages
  /\ received' = Append(received,
                        [via |-> via, origin |-> origin, data |-> data, threw |-> h.threw,
                         write |-> IF h.set = Undefined THEN "none" ELSE "pending",
                         responses |-> IF h.answer = "" THEN << >> ELSE << h.answer >>])
  /\ setQueue' = IF h.set = Undefined THEN setQueue
                 ELSE Append(setQueue, [token |-> h.set, msg |-> Len(received) + 1])
  /\ UNCHANGED << pageVars, scanVars, cycleVars, storeVars, boxText, timerVars, clockVars,
                  pendingRecords, extracted, popup, budget >>

\* chrome.storage.local.set completes and its callback runs: with lastError nothing was
\* stored; the background worker calls sendResponse in either branch
StorageSetCompletes(lastError) ==
  /\ setQueue # << >>
  /\ LET w == Head(setQueue) IN
     /\ store' = IF lastError THEN store ELSE [store EXCEPT !.clerkToken = w.token]
     /\ received' = [received EXCEPT
                       ![w.msg].write = IF lastError THEN "failed" ELSE "stored",
                       ![w.msg].responses =
                          IF received[w.msg].via = "external"
                          THEN Append(@, IF lastError THEN "<lastError.message>"
                                         ELSE "Token stored successfully")
                          ELSE @]
  /\ setQueue' = Tail(setQueue)
  /\ UNCHANGED << pageVars, scanVars, cycleVars, storageApi, boxText, timerVars, clockVars,
                  pendingRecords, extracted, popup, budget >>

\* String.prototype.split(".").length of the tokens of the model
Segments(t) ==
  CASE t \in {"hdr.payload.sig", "hdr.expired.sig", "hdr.@@@.sig"} -> 3
    [] t = "hdr.payload" -> 2
    [] OTHER -> 1

\* JSON.parse(atob(tokenParts[1])) and the test of payload.exp against the present
PayloadCheck(t) ==
  CASE t = "hdr.@@@.sig" -> "throws"
    [] t = "hdr.expired.sig" -> "expired"
    [] OTHER -> "valid"

NoPopup == [checked |-> FALSE, token |-> Undefined, authSection |-> "<markup>", statusText |-> "<markup>"]
AuthenticatedUi(t) == [checked |-> TRUE, token |-> t, authSection |-> "hidden", statusText |-> "Connected"]
LoginUi(t) == [checked |-> TRUE, token |-> t, authSection |-> "shown", statusText |-> "Not connected"]

\* checkAuthStatus from the answer of chrome.storage.local.get on: the inner try block
\* shows the authenticated UI for a valid token, its catch block shows it after a throw,
\* and a token of another number of segments only logs a warning and falls through to
\* the login prompt
checkAuthStatus(t) ==
  IF Truthy(t)
  THEN IF t = NonString THEN AuthenticatedUi(t)               \* split is no function: catch
       ELSE IF Segments(t) = 3
            THEN IF PayloadCheck(t) = "valid" THEN AuthenticatedUi(t)
                 ELSE AuthenticatedUi(t)                      \* a throw: catch
       ELSE LoginUi(t)                                        \* warning, no throw
  ELSE LoginUi(t)

\* the popup is opened, or chrome.storage.onChanged fires while it is open
PopupChecksAuth ==
  /\ popup' = checkAuthStatus(store.clerkToken)
  /\ popup' # popup
  /\ UNCHANGED << pageVars, scanVars, cycleVars, storeVars, boxText, timerVars, clockVars,
                  pendingRecords, extracted, received, setQueue, budget >>

\* ------------------------------------------------- the extractor on its own
NoExtraction == [called |-> FALSE, unit |-> NoUnit, loading |-> FALSE, text |-> << >>]

\* a call of extractPostText with a unit or with no unit; loading: the call is the one of
\* the click handler, made while the control of the unit shows "Generating..."
Extract(u, loading) ==
  /\ ~pendingRecords
  /\ loading => (u \in Units /\ container[u])
  /\ extracted' = [ called  |-> TRUE,
                    unit    |-> u,
                    loading |-> loading,
                    text    |-> extractPostText(u, IF loading
                                                   THEN [ctl EXCEPT ![u] = Loading(@)]
                                                   ELSE ctl) ]
  /\ UNCHANGED << peerVars, pageVars, scanVars, cycleVars, storeVars, boxText, timerVars, clockVars,
                  pendingRecords, budget >>

\* ------------------------------------------------------------------- init
\* the page after init() has run: nothing scanned, the initial-scan timer set, both
\* observers registered
InitPage(hosts, kinds, docs) ==
  /\ hostname \in hosts
  /\ url \in (IF detectPlatform(hostname) = "x" THEN Urls ELSE {"/home"})
  /\ lastUrl = url
  /\ kind \in kinds
  /\ inDoc \in docs
  /\ container = [u \in Units |-> FALSE]
  /\ processedPosts = {}
  /\ created = [u \in Units |-> 0]
  /\ skipped = {}
  /\ ctl = [u \in Units |-> NoControl]
  /\ act = [u \in Units |-> NoActivation]
  /\ cyc = [u \in Units |-> NoCycle]
  /\ storageApi = "ok"
  /\ boxText = [b \in Boxes |-> NoBox]
  /\ initTimer = InitialScanDelay
  /\ mutationTimeout = NoTimer
  /\ navTimers = << >>
  /\ sinceBatch = DebounceDelay
  /\ burst = [batches |-> 0, scans |-> 0, waited |-> -1]
  /\ pendingRecords = FALSE
  /\ extracted = NoExtraction
  /\ received = << >>
  /\ setQueue = << >>
  /\ popup = NoPopup

InitEnv(clicks, hostOps, storeOps, nav) ==
  /\ store = [clerkToken |-> Undefined, replyTone |-> Undefined, enableEmojis |-> Undefined]
  /\ budget = [clicks |-> clicks, hostOps |-> hostOps, storeOps |-> storeOps, nav |-> nav]

Cycles(responses) ==
  \/ \E u \in Units : Click(u)
  \/ \E u \in Units, lastError \in BOOLEAN : StorageAnswers(u, lastError)
  \/ \E u \in Units, resp \in responses : FetchSettles(u, resp)
  \/ \E u \in Units, outcome \in PasteOutcomes : PasteSettles(u, outcome)
  \/ \E u \in Units : ResetTimer(u)

\* ---------------------------------------------------------- specifications
\* what the host renders when the last unit is an ordinary post and the first one is of
\* any kind
OneOddKind == { k \in [Units -> UnitKinds] : k[LastUnit] = PostKind }

\* Spec: the controls and their activation cycles. The page shows all its units from the
\* start; the host toggles editable regions and drops controls; timers fire at any moment.
Init ==
  /\ InitPage({"www.linkedin.com", "x.com"}, OneOddKind, {Units})
  /\ InitEnv(MaxClicks, MaxHostOps, MaxStoreOps, 0)

Next ==
  \/ ObserverCallback(FALSE)
  \/ InitialScan(FALSE)
  \/ DebouncedScan(FALSE)
  \/ \E u \in Units : HostRemovesControl(FALSE, u)
  \/ \E b \in Boxes : HostTogglesBox(FALSE, b)
  \/ \E v \in Tokens \ {Undefined} : ExternalStoreWrite("clerkToken", v)
  \/ \E how \in {"missing", "invalidated"} : ContextInvalidated(how)
  \/ Cycles(Responses)

Spec == Init /\ [][Next]_vars

\* SpecScan: the scan engine under every host-page change and address change; timers fire
\* at any moment and no control is activated.
InitScan ==
  /\ InitPage(Hostnames, [Units -> UnitKinds], SUBSET Units)
  /\ InitEnv(0, MaxScanHostOps, 0, MaxNav)

NextScan ==
  \/ ObserverCallback(FALSE)
  \/ InitialScan(FALSE)
  \/ DebouncedScan(FALSE)
  \/ NavRescan(FALSE)
  \/ HrefMutation(FALSE)
  \/ \E newUrl \in Urls : PushState(FALSE, newUrl)
  \/ \E newUrl \in Urls : PopState(FALSE, newUrl)
  \/ \E u \in Units : HostAddsUnit(FALSE, u)
  \/ \E u \in Units : HostRemovesUnit(FALSE, u)
  \/ \E u \in Units : HostRemovesControl(FALSE, u)
  \/ HostMutatesElsewhere(FALSE)

SpecScan == InitScan /\ [][NextScan]_vars

\* SpecTimed: the structural watcher under a clock: mutation batches, the debounce timer
\* and the scans it runs.
InitTimed ==
  /\ InitPage({"www.linkedin.com", "x.com"}, [Units -> UnitKinds], SUBSET Units)
  /\ InitEnv(0, MaxTimedHostOps, 0, 0)

NextTimed ==
  \/ Tick
  \/ ObserverCallback(TRUE)
  \/ InitialScan(TRUE)
  \/ DebouncedScan(TRUE)
  \/ \E u \in Units : HostAddsUnit(TRUE, u)
  \/ \E u \in Units : HostRemovesControl(TRUE, u)
  \/ HostMutatesElsewhere(TRUE)

SpecTimed == InitTimed /\ [][NextTimed]_vars

\* what the host renders when only the last unit is of any kind
LastUnitOfAnyKind ==
  { k \in [Units -> UnitKinds] : \A u \in Units \ {LastUnit} : k[u] = PostKind }

\* SpecClient: the activations of one control against every answer of the service; the
\* page shows the last unit only.
InitClient ==
  /\ InitPage({"www.linkedin.com", "x.com"}, LastUnitOfAnyKind, {{LastUnit}})
  /\ InitEnv(MaxClientClicks, MaxHostOps, MaxStoreOps, 0)

NextClient ==
  \/ ObserverCallback(FALSE)
  \/ InitialScan(FALSE)
  \/ DebouncedScan(FALSE)
  \/ \E b \in Boxes : HostTogglesBox(FALSE, b)
  \/ \E v \in Tokens \ {Undefined} : ExternalStoreWrite("clerkToken", v)
  \/ Cycles(AllResponses)

SpecClient == InitClient /\ [][NextClient]_vars

\* what the host renders when the first unit is of any kind the extractor may meet
FirstUnitOfAnyExtractKind ==
  { k \in [Units -> ExtractKinds] : \A u \in Units \ {1} : k[u] = PostKind }

\* SpecExtract: the Content Extractor called with every unit and with no unit, on every
\* host, before and after the scans have attached the controls.
InitExtract ==
  /\ InitPage(Hostnames, FirstUnitOfAnyExtractKind, SUBSET Units)
  /\ InitEnv(0, 0, 0, 0)

NextExtract ==
  \/ ObserverCallback(FALSE)
  \/ InitialScan(FALSE)
  \/ DebouncedScan(FALSE)
  \/ \E u \in Units \cup {NoUnit}, loading \in BOOLEAN : Extract(u, loading)

SpecExtract == InitExtract /\ [][NextExtract]_vars

\* the credential after the dashboard has sent a fresh one
RefreshedTokens == Tokens \cup {"tokB"}

\* what the external collaborators write under each key of the store
StoredValues(key) ==
  CASE key = "clerkToken" -> RefreshedTokens \ {Undefined}
    [] key = "replyTone" -> Tones \ {Undefined}
    [] key = "enableEmojis" -> EmojiSettings \ {Undefined}

StoreKeys == {"clerkToken", "replyTone", "enableEmojis"}

\* what the store may hold when the page is loaded, once the dashboard has sent a credential
Stores == [clerkToken : Tokens \ {Undefined}, replyTone : Tones, enableEmojis : EmojiSettings]

\* the answers the activation cycles of SpecStore are run against
StoreResponses == { Http(200, "", "object", "Congrats!"), Http(401, "Unauthorized", "object", Undefined) }

\* what the host renders when every unit is an ordinary post
AllPosts == { [u \in Units |-> PostKind] }

\* SpecStore: the activation cycles of the controls while the popup, the dashboard bridge
\* and the background worker write the store; the store holds a credential and any
\* preferences at page load. The initial scan attaches the controls; the debounce timer
\* of the structural watcher stays pending.
InitStore ==
  /\ InitPage({"www.linkedin.com", "x.com"}, AllPosts, {Units})
  /\ store \in Stores
  /\ budget = [clicks |-> MaxStoreClicks, hostOps |-> MaxHostOps, storeOps |-> MaxStoreWrites, nav |-> 0]

NextStore ==
  \/ ObserverCallback(FALSE)
  \/ InitialScan(FALSE)
  \/ HostTogglesBox(FALSE, 0)
  \/ \E key \in StoreKeys : \E v \in StoredValues(key) : ExternalStoreWrite(key, v)
  \/ Cycles(StoreResponses)

SpecStore == InitStore /\ [][NextStore]_vars

\* a unit rendered with a height and a text
Rendered(h, t) == [PostKind EXCEPT !.height = h, !.innerText = t, !.locText = t]

\* what the host renders in SpecRender: heights around the height filter of the
\* professional feed and around 30% of the viewport, texts around the length filter of
\* the microblog
RenderKinds ==
  { Rendered(50, "Nice"),
    Rendered(MinPostHeight - 1, "Great insight on scaling systems!"),
    Rendered(MinPostHeight, "Great insight on scaling systems!"),
    Rendered((InnerHeight * 3) \div 10, "Great insight on scaling systems!"),
    Rendered((InnerHeight * 3) \div 10 + 1, "Great insight on scaling systems!"),
    Rendered(400, "Thank you"),
    Rendered(400, "Well said!") }

\* SpecRender: the scans while the host page renders units anew, on every host that has
\* a platform and in the feed and the detail view.
InitRender ==
  /\ InitPage({"www.linkedin.com", "x.com", "twitter.com"}, [Units -> RenderKinds], SUBSET Units)
  /\ InitEnv(0, MaxRenderOps, 0, 0)

NextRender ==
  \/ ObserverCallback(FALSE)
  \/ InitialScan(FALSE)
  \/ DebouncedScan(FALSE)
  \/ \E u \in Units, k \in RenderKinds, records \in BOOLEAN : HostRendersUnit(FALSE, u, k, records)
  \/ HostMutatesElsewhere(FALSE)

SpecRender == InitRender /\ [][NextRender]_vars

\* the answers the activation cycles of SpecLive are run against
LiveResponses ==
  { NetworkFailure, Http(200, "", "object", "Congrats!"), Http(401, "Unauthorized", "object", Undefined) }

\* SpecLive: the activation cycles and the scans as the event loop runs them. Every task
\* that is ready runs: the callback of the structural observer, a timer that was set (the
\* scans, the 50 ms wait of the writer, the reset timers), the callback of the store
\* read, and the continuation of a request. The request is assumed to settle: fetch has
\* no timeout, and a request that never settles leaves the handler suspended. The user
\* and the host page act a bounded number of times.
InitLive ==
  /\ InitPage({"www.linkedin.com", "x.com"}, AllPosts, {Units})
  /\ store \in [clerkToken : Tokens, replyTone : {Undefined}, enableEmojis : {Undefined}]
  /\ budget = [clicks |-> MaxLiveClicks, hostOps |-> MaxLiveHostOps, storeOps |-> 0, nav |-> 0]

NextLive ==
  \/ ObserverCallback(FALSE)
  \/ InitialScan(FALSE)
  \/ DebouncedScan(FALSE)
  \/ \E u \in Units : HostRemovesControl(FALSE, u)
  \/ HostTogglesBox(FALSE, 0)
  \/ Cycles(LiveResponses)

SpecLive ==
  /\ InitLive /\ [][NextLive]_vars
  /\ WF_vars(ObserverCallback(FALSE))
  /\ WF_vars(InitialScan(FALSE))
  /\ WF_vars(DebouncedScan(FALSE))
  /\ \A u \in Units :
       /\ WF_vars(\E lastError \in BOOLEAN : StorageAnswers(u, lastError))
       /\ WF_vars(\E resp \in LiveResponses : FetchSettles(u, resp))
       /\ WF_vars(\E outcome \in PasteOutcomes : PasteSettles(u, outcome))
       /\ WF_vars(ResetTimer(u))

\* what the host renders in SpecWatch: a unit below the height filter, a unit that passes
\* both filters, a unit below the length filter
WatchKinds ==
  { Rendered(MinPostHeight - 1, "Great insight on scaling systems!"),
    Rendered((InnerHeight * 3) \div 10 + 1, "Great insight on scaling systems!"),
    Rendered(400, "Thank you") }

\* SpecWatch: the three ways a scan is started (the initial timer, the debounce timer of
\* the structural observer, the rescan timer of the navigation watcher) as the event
\* loop runs them: an observer callback that has records runs, a timer that was set
\* fires. The host page adds and renders units a bounded number of times and goes from
\* one address to the other once, so that its mutations settle. The first unit is a
\* unit with a short text; the last unit is of any kind.
InitWatch ==
  /\ InitPage({"www.linkedin.com", "x.com"},
              { k \in [Units -> WatchKinds] : \A u \in Units \ {LastUnit} : k[u] = Rendered(400, "Thank you") },
              SUBSET Units)
  /\ InitEnv(0, MaxWatchOps, 0, Cardinality(Urls) - 1)

NextWatch ==
  \/ ObserverCallback(FALSE)
  \/ InitialScan(FALSE)
  \/ DebouncedScan(FALSE)
  \/ NavRescan(FALSE)
  \/ HrefMutation(FALSE)
  \/ \E newUrl \in Urls : PushState(FALSE, newUrl)
  \/ \E newUrl \in Urls : PopState(FALSE, newUrl)
  \/ \E u \in Units : HostAddsUnit(FALSE, u)
  \/ \E u \in Units, k \in WatchKinds, records \in BOOLEAN : HostRendersUnit(FALSE, u, k, records)

SpecWatch ==
  /\ InitWatch /\ [][NextWatch]_vars
  /\ WF_vars(ObserverCallback(FALSE))
  /\ WF_vars(InitialScan(FALSE))
  /\ WF_vars(DebouncedScan(FALSE))
  /\ WF_vars(NavRescan(FALSE))

\* what the host renders in SpecNested: the last unit is rendered inside the first one
\* and is no taller than it
NestedKinds ==
  { k \in [Units -> { [x EXCEPT !.parent = p] : x \in UnitKinds, p \in {NoUnit, 1} }] :
      /\ k[1].parent = NoUnit
      /\ k[LastUnit].parent = 1
      /\ k[LastUnit].height <= k[1].height }

\* SpecNested: the scans of the professional feed when one element that matches the
\* locator list contains another one (a shared card inside a post). The inner element
\* is there from the start or the host adds it later; the host drops no control.
InitNested ==
  /\ InitPage({"www.linkedin.com"}, NestedKinds, {{1}, Units})
  /\ InitEnv(0, MaxNestOps, 0, 0)

NextNested ==
  \/ ObserverCallback(FALSE)
  \/ InitialScan(FALSE)
  \/ DebouncedScan(FALSE)
  \/ HostAddsUnit(FALSE, LastUnit)
  \/ HostMutatesElsewhere(FALSE)

SpecNested == InitNested /\ [][NextNested]_vars

\* what the store holds before the dashboard sends a message
StoredBefore == {Undefined, "hdr.expired.sig", "hdr.@@@.sig", "hdr.payload"}

\* SpecPeers: the dashboard bridge, the background worker and the popup around the
\* store: pages send messages of every shape to the bridge and to the worker, the writes
\* complete or fail, and the popup checks the credential at any moment.
InitPeers ==
  /\ InitPage({"example.org"}, AllPosts, {{}})
  /\ store \in [clerkToken : StoredBefore, replyTone : {Undefined}, enableEmojis : {Undefined}]
  /\ budget = [clicks |-> 0, hostOps |-> 0, storeOps |-> 0, nav |-> 0]

NextPeers ==
  \/ \E origin \in Origins, data \in MessageData : Receive("bridge", origin, data)
  \/ \E origin \in Origins, data \in MessageData : Receive("external", origin, data)
  \/ \E lastError \in BOOLEAN : StorageSetCompletes(lastError)
  \/ PopupChecksAuth

SpecPeers == InitPeers /\ [][NextPeers]_vars

\* ================================================================ properties
\* the states a control shows in a cycle that succeeds and in one that fails
SuccessCycle == << "Idle", "Generating", "Success", "Idle" >>
ErrorCycle == << "Idle", "Generating", "Error", "Idle" >>

IsPrefix(h, full) == Len(h) <= Len(full) /\ \A i \in 1..Len(h) : h[i] = full[i]

\* a handler of the control of unit u is suspended or its reset timer is pending
Pending(u) == act[u].reading + act[u].fetching + act[u].pasting + act[u].resets

\* what one run of the Scan Engine would do to the set, the counts and the containers
ScanOutcome ==
  LET st == attachButtonsToPosts(ScanState) IN << st.processed, st.created, st.container >>

\* the failure kinds of the Generation Client, by the error it throws
FailureKind(e) ==
  IF e.msg = Msg401 THEN "AuthError"
  ELSE IF e.msg = Msg402 THEN "QuotaError"
  ELSE IF e.msg = MsgApi THEN "TransportError"
  ELSE "other"

\* C1 (SpecScan): whatever scans the initial timer, the debounced watcher and the
\* navigation rescans have run, a unit that is in processedPosts has had exactly one
\* control created for it, and no unit has had more than one.
C1_OneControlPerProcessedUnit ==
  /\ \A u \in processedPosts : created[u] = 1
  /\ \A u \in Units : created[u] <= 1

\* a processed unit of the professional feed is in the document without its control (the
\* host dropped it), is tall enough to be given one, and the scan that followed the
\* removal has run
C1_Witness ==
  \E u \in processedPosts :
    /\ detectPlatform(hostname) = "linkedin"
    /\ u \in inDoc /\ ~container[u]
    /\ kind[u].height >= MinPostHeight
    /\ ~pendingRecords /\ mutationTimeout = NoTimer /\ initTimer = NoTimer
    /\ created[u] = 1

\* C2 (Spec): the states a control has shown in its current cycle are a prefix of Idle,
\* Generating, Success, Idle or of Idle, Generating, Error, Idle, the last of them is the
\* state it shows now, and once nothing of the cycle is pending the cycle is complete.
C2_CycleStates ==
  \A u \in Units :
    /\ IsPrefix(cyc[u].hist, SuccessCycle) \/ IsPrefix(cyc[u].hist, ErrorCycle)
    /\ cyc[u].hist[Len(cyc[u].hist)] = ControlState(ctl[u])
    /\ Pending(u) = 0 => cyc[u].hist \in { << "Idle" >>, SuccessCycle, ErrorCycle }

\* one control has completed a cycle through Success and another one through Error
C2_Witness ==
  \E u, v \in Units : cyc[u].hist = SuccessCycle /\ cyc[v].hist = ErrorCycle

\* C3 (Spec): a control has at most one store read or request in flight and at most one
\* handler or reset timer pending; while anything is pending the button is disabled, and
\* an enabled button shows Idle, so that the next activation starts after the reset.
C3_OneRequestInFlight ==
  \A u \in Units :
    /\ act[u].reading + act[u].fetching <= 1
    /\ cyc[u].fetches <= 1
    /\ Pending(u) <= 1
    /\ Pending(u) > 0 => ctl[u].disabled
    /\ ~ctl[u].disabled => ControlState(ctl[u]) = "Idle"

\* the request of the second activation of one control is in flight while the other
\* control has never been activated
C3_Witness ==
  \E u \in Units :
    /\ act[u].fetching = 1
    /\ budget.clicks = MaxClicks - 2
    /\ \A v \in Units \ {u} : cyc[v] = NoCycle /\ act[v] = NoActivation

\* C4 (SpecTimed): of a burst of mutation batches, each less than the debounce window
\* after the one before, either the debounce timer is pending and no scan has run, or
\* exactly one scan has run, and it ran when the whole window had elapsed since the last
\* batch of the burst.
C4_DebounceOneScan ==
  burst.batches > 0 =>
    IF mutationTimeout # NoTimer
    THEN burst.scans = 0
    ELSE burst.scans = 1 /\ burst.waited = DebounceDelay

\* a burst of several batches has been answered by its one scan
C4_Witness ==
  burst.batches >= 2 /\ burst.scans = 1 /\ mutationTimeout = NoTimer

\* C5 (Spec): a step in which the cycle of one control fails leaves that control in
\* Error with the failure caught, leaves every other control as it was, and changes
\* neither processedPosts, nor the controls created, nor the containers, nor what a scan
\* would do.
C5_FailureContained ==
  [][ \A u \in Units :
        (cyc[u].err = NoError /\ cyc'[u].err # NoError) =>
          /\ ControlState(ctl'[u]) = "Error"
          /\ ~cyc'[u].uncaught
          /\ act'[u].resets = 1
          /\ \A v \in Units \ {u} : ctl'[v] = ctl[v] /\ act'[v] = act[v] /\ cyc'[v] = cyc[v]
          /\ processedPosts' = processedPosts
          /\ created' = created
          /\ container' = container
          /\ ScanOutcome' = ScanOutcome ]_vars

\* the request of one control has failed while the cycle of another control is running
C5_Witness ==
  \E u, v \in Units :
    /\ cyc[u].err.msg = MsgNetwork /\ ControlState(ctl[u]) = "Error"
    /\ ControlState(ctl[v]) = "Generating" /\ act[v].fetching = 1

\* C6 (Spec): when the store read of an activation returns no credential, the control
\* shows Error for the missing token, no request has been issued and fillReplyBox has
\* not been called.
C6_NoTokenNoRequest ==
  \A u \in Units :
    cyc[u].tokenRead = Undefined =>
      /\ ControlState(ctl[u]) = "Error"
      /\ cyc[u].err.msg = MsgNoToken
      /\ cyc[u].fetches = 0 /\ cyc[u].request = NoRequest /\ act[u].fetching = 0
      /\ cyc[u].fills = 0

\* an activation has read the store, found no credential and failed
C6_Witness ==
  \E u \in Units :
    cyc[u].tokenRead = Undefined /\ cyc[u].reads = 1 /\ ControlState(ctl[u]) = "Error"

\* C7 as stated (Spec): when the store read of an activation returns no credential,
\* extractPostText has not been called in that cycle.
C7_NoTokenNoExtraction ==
  \A u \in Units : cyc[u].tokenRead = Undefined => cyc[u].extracts = 0

\* C7 amended (Spec): when the store read of an activation returns no credential,
\* extractPostText has been called exactly once in that cycle, before the store was
\* read, and it returned text that is not blank.
C7_NoTokenOneExtraction ==
  \A u \in Units :
    cyc[u].tokenRead = Undefined =>
      /\ cyc[u].extracts = 1
      /\ ~TrimIsEmpty(cyc[u].text)
      /\ cyc[u].reads = 1

\* the cycle that found no credential had extracted the text of its post before
C7_Witness ==
  \E u \in Units :
    /\ cyc[u].tokenRead = Undefined
    /\ cyc[u].extracts = 1
    /\ cyc[u].text = << "Great insight on scaling systems!" >>

\* C8 (Spec): a cycle in which fillReplyBox found no input surface (and showed its
\* notice) does not show Success.
C8_NoSurfaceNoSuccess ==
  \A u \in Units : "input" \in cyc[u].notices => ControlState(ctl[u]) # "Success"

\* C9 (Spec): on the professional feed, when the request of a cycle (text extracted,
\* credential read) settles with a success and a reply r while an editable region is in
\* the document, the control shows Success and the region fillReplyBox located holds r.
C9_ReplyWritten ==
  [][ \A u \in Units :
        ( /\ detectPlatform(hostname) = "linkedin"
          /\ act[u].fetching = 1 /\ act'[u].fetching = 0
          /\ ~TrimIsEmpty(cyc[u].text) /\ cyc[u].tokenRead # Undefined
          /\ cyc'[u].httpStatus \in 200..299 /\ cyc'[u].reply # Undefined
          /\ \E b \in Boxes : boxText[b] # NoBox /\ BoxInDocument(b) ) =>
          /\ ControlState(ctl'[u]) = "Success"
          /\ cyc'[u].box \in Boxes
          /\ boxText[cyc'[u].box] # NoBox
          /\ boxText'[cyc'[u].box] = cyc'[u].reply ]_vars

\* on the professional feed a control shows Success and the only editable region, which
\* lies outside its post, holds the reply
C9_Witness ==
  \E u \in Units :
    /\ detectPlatform(hostname) = "linkedin"
    /\ ControlState(ctl[u]) = "Success"
    /\ cyc[u].box = 0 /\ cyc[u].reply = "Congrats!"
    /\ boxText[0] = "Congrats!"
    /\ \A b \in Boxes \ {0} : boxText[b] = NoBox

\* C10 (SpecClient): a cycle whose request was answered with a status outside 200..299
\* has failed with the failure its status alone selects: 401 AuthError, 402 QuotaError,
\* any other status TransportError.
C10_StatusSelectsFailure ==
  \A u \in Units :
    (cyc[u].httpStatus # -1 /\ cyc[u].httpStatus \notin 200..299) =>
      FailureKind(cyc[u].err) =
        ( IF cyc[u].httpStatus = 401 THEN "AuthError"
          ELSE IF cyc[u].httpStatus = 402 THEN "QuotaError"
          ELSE "TransportError" )

\* a request has been answered with status 402 and the cycle has failed for the quota
C10_Witness ==
  \E u \in Units :
    cyc[u].httpStatus = 402 /\ cyc[u].err = Err(Msg402) /\ ControlState(ctl[u]) = "Error"

\* ------------------------------------------------- scans and navigation
\* the step is one run of attachButtonsToPosts: a scan timer has fired
ScanStep ==
  \/ initTimer # NoTimer /\ initTimer' = NoTimer
  \/ mutationTimeout # NoTimer /\ mutationTimeout' = NoTimer
  \/ Len(navTimers') < Len(navTimers)

\* the step is the rescan that the Navigation watcher scheduled
NavRescanStep == Len(navTimers') < Len(navTimers)

\* the step is the Navigation watcher detecting an address change: it schedules a rescan
NavDetectedStep == Len(navTimers') > Len(navTimers)

\* the unit passes the filters of the scan of the platform shown
Eligible(u) ==
  LET platform == detectPlatform(hostname) IN
  IF platform = "linkedin" THEN kind[u].height >= MinPostHeight
  ELSE IF platform = "x"
       THEN isTwitterDetailView /\ TextLength(kind[u].innerText) >= MinTweetTextLength
  ELSE FALSE

\* C11 (SpecScan): on the microblog, the step in which the Navigation watcher detects an
\* address change (href mutation with a changed location, or popstate) leaves
\* processedPosts empty.
C11_SetEmptyAfterNavigation ==
  [][ NavDetectedStep => processedPosts' = {} ]_vars

\* C12 (SpecScan): after the rescan that follows a detected address change, every unit
\* that was processed before (a control was created for it), is in the document and
\* passes the filters is in processedPosts and has a control.
C12_RediscoveredAfterNavigation ==
  [][ NavRescanStep =>
        \A u \in inDoc :
          (created[u] > 0 /\ Eligible(u)) => u \in processedPosts' /\ container'[u] ]_vars

C15_FeedViewScanChangesNothing ==
  [][ (ScanStep /\ detectPlatform(hostname) = "x" /\ ~isTwitterDetailView) =>
        /\ UNCHANGED << container, processedPosts, created, ctl >>
        /\ ~pendingRecords' ]_vars

\* on the feed of the microblog the initial scan has run over two tweets with enough
\* text, before any host change or navigation, and has created nothing
C15_Witness ==
  /\ detectPlatform(hostname) = "x" /\ ~isTwitterDetailView
  /\ inDoc = Units
  /\ \A u \in Units : TextLength(kind[u].innerText) >= MinTweetTextLength
  /\ initTimer = NoTimer
  /\ budget.hostOps = MaxScanHostOps /\ budget.nav = MaxNav
  /\ processedPosts = {} /\ \A u \in Units : created[u] = 0 /\ ~container[u]

\* the host name contains none of the fragments of the known hosts
NoKnownHost ==
  \A frag \in {"linkedin", "x.com", "twitter.com"} : ~Includes(hostname, frag)

\* C16 (SpecScan): when the host name contains none of the known fragments, the platform
\* is "unknown" and every scan (initial, debounced, navigation) changes neither the
\* containers, nor processedPosts, nor the controls created.
C16_UnknownPlatformScanChangesNothing ==
  [][ NoKnownHost =>
        /\ detectPlatform(hostname) = "unknown"
        /\ ScanStep => ( /\ UNCHANGED << container, processedPosts, created, ctl >>
                         /\ ~pendingRecords' ) ]_vars

\* on a foreign host the initial scan and a debounced scan after a host mutation have
\* run over two ordinary posts and have created nothing
C16_Witness ==
  /\ hostname = "example.org"
  /\ inDoc = Units /\ \A u \in Units : kind[u] = PostKind
  /\ initTimer = NoTimer /\ mutationTimeout = NoTimer /\ ~pendingRecords
  /\ budget.hostOps < MaxScanHostOps
  /\ processedPosts = {} /\ \A u \in Units : created[u] = 0 /\ ~container[u]

\* --------------------------------------------------- controls side by side
\* C17 (Spec): a step of the activation cycle of one control (a click, a store answer, a
\* settled request, a finished paste, a reset timer) leaves the look, the disabled flag,
\* the pending handlers and the cycle of every other control as they were.
C17_ControlsIndependent ==
  [][ \A u \in Units :
        (cyc'[u] # cyc[u] \/ act'[u] # act[u]) =>
          \A v \in Units \ {u} :
            /\ ctl'[v] = ctl[v]
            /\ act'[v] = act[v]
            /\ cyc'[v] = cyc[v] ]_vars

\* two controls show Generating at the same time, each with its own request in flight
C17_Witness ==
  \E u, v \in Units :
    /\ u # v
    /\ ControlState(ctl[u]) = "Generating" /\ ControlState(ctl[v]) = "Generating"
    /\ act[u].fetching = 1 /\ act[v].fetching = 1
    /\ cyc[u].request # NoRequest /\ cyc[v].request # NoRequest
    /\ ctl[u].disabled /\ ctl[v].disabled

\* C18 (Spec): a cycle that has shown the blocking notice about the credential has
\* failed for the missing credential or for an unauthorized (401) answer.
C18_TokenNoticeOnlyForCredential ==
  \A u \in Units :
    "token" \in cyc[u].notices => cyc[u].err.msg \in { MsgNoToken, Msg401 }

\* ------------------------------------------------------- Content Extractor
\* the control states under which the last call of extractPostText was made
ExtractedUnder ==
  IF extracted.loading THEN [ctl EXCEPT ![extracted.unit] = Loading(@)] ELSE ctl

\* C19 (SpecExtract): a call of extractPostText with no unit, or with a unit whose
\* aggregated visible text is empty, has returned the empty string and has raised
\* nothing, on the professional feed, on the microblog and on an unknown host.
C19_AbsentOrEmptyUnitGivesEmpty ==
  ( /\ extracted.called
    /\ \/ extracted.unit = NoUnit
       \/ unitInnerText(extracted.unit, ExtractedUnder) = << >> ) =>
      extracted.text # Thrown /\ extracted.text = << >>

\* extractPostText has been called with no unit on a host of a known platform
C19_Witness ==
  /\ extracted.called /\ extracted.unit = NoUnit
  /\ detectPlatform(hostname) \in {"linkedin", "x"}
  /\ extracted.text = << >>

\* the text of the claimed chain: the first text that is not empty among the located
\* element, (on the microblog) the descendant article, and the unit itself
ChainText(u, cs) ==
  IF kind[u].locText \notin {NoMatch, ""} THEN Fragments(kind[u].locText)
  ELSE IF detectPlatform(hostname) = "x" /\ kind[u].articleText \notin {NoMatch, ""}
       THEN Fragments(kind[u].articleText)
  ELSE unitInnerText(u, cs)

\* C20 as stated (SpecExtract): on both platforms a call of extractPostText with a unit
\* has returned the first non-empty text of the chain, which ends with the unit's own
\* aggregated visible text.
C20_FirstNonEmptyOfChain ==
  ( /\ extracted.called /\ extracted.unit # NoUnit
    /\ detectPlatform(hostname) \in {"linkedin", "x"} ) =>
      extracted.text = ChainText(extracted.unit, ExtractedUnder)

\* C20 amended (SpecExtract): a call of extractPostText with a unit has returned the text
\* of the first element the text locator matches, empty or not; without a match it has
\* returned, on the professional feed, the unit's own aggregated visible text, and on the
\* microblog the text of the first descendant article, or the empty string when there
\* is none.
C20_FirstMatchDecides ==
  ( /\ extracted.called /\ extracted.unit # NoUnit
    /\ detectPlatform(hostname) \in {"linkedin", "x"} ) =>
      LET k == kind[extracted.unit] IN
      /\ k.locText # NoMatch => extracted.text = Fragments(k.locText)
      /\ (k.locText = NoMatch /\ detectPlatform(hostname) = "linkedin") =>
           extracted.text = unitInnerText(extracted.unit, ExtractedUnder)
      /\ (k.locText = NoMatch /\ detectPlatform(hostname) = "x") =>
           extracted.text = ( IF k.articleText # NoMatch THEN Fragments(k.articleText)
                              ELSE << >> )

\* on the professional feed the locator matched an element without text inside a unit
\* that has text, and the call returned the empty string
C20_Witness ==
  /\ extracted.called /\ extracted.unit # NoUnit
  /\ detectPlatform(hostname) = "linkedin"
  /\ kind[extracted.unit].locText = ""
  /\ kind[extracted.unit].innerText = "Great insight on scaling systems!"
  /\ extracted.text = << >>

\* ------------------------------------------------- the persisted store
\* the step is a write of an external collaborator: one key changes, to a value that
\* collaborator writes, and nothing of the page or of the controls changes with it
ExternalWriteStep ==
  /\ budget'.storeOps = budget.storeOps - 1
  /\ \E key \in StoreKeys :
       /\ store'[key] \in StoredValues(key)
       /\ \A other \in StoreKeys \ {key} : store'[other] = store[other]
  /\ UNCHANGED << pageVars, scanVars, cycleVars, storageApi, boxText, timerVars >>

\* C21 (SpecStore): no step of the scan, of the watchers, of an activation cycle, of the
\* generation call or of the writer changes chrome.storage.local: the credential, the
\* tone and the emoji key change only in the steps of the external collaborators.
C21_CoreNeverWritesStore == [][store' # store => ExternalWriteStep]_vars

\* a cycle has read the store, issued its request and filled the reply box, and no
\* external collaborator has written the store so far
C21_Witness ==
  \E u \in Units :
    /\ cyc[u].reads = 1 /\ cyc[u].fetches = 1 /\ cyc[u].fills = 1
    /\ cyc[u].box = 0 /\ boxText[0] = cyc[u].reply
    /\ budget.storeOps = MaxStoreWrites

\* C22 (SpecStore): the step that issues a request gives it the credential, the tone and
\* the emoji preference that the store holds in that step, also when an external
\* collaborator has changed the store since an earlier activation.
C22_RequestCarriesCurrentStore ==
  [][\A u \in Units :
       cyc'[u].fetches = cyc[u].fetches + 1 =>
         /\ cyc'[u].request.token = store.clerkToken
         /\ cyc'[u].request.tone = ToneOf(store.replyTone, detectPlatform(hostname))
         /\ cyc'[u].request.emojiBool = EmojisOf(store.enableEmojis)]_vars

\* two controls have issued requests, an external collaborator has written the store
\* between them, and the later request differs from the earlier one and carries the
\* store's values
C22_Witness ==
  \E u, v \in Units :
    /\ u # v
    /\ cyc[u].request # NoRequest /\ cyc[v].request # NoRequest
    /\ budget.storeOps < MaxStoreWrites
    /\ << cyc[u].request.token, cyc[u].request.tone, cyc[u].request.emojiBool >>
         # << cyc[v].request.token, cyc[v].request.tone, cyc[v].request.emojiBool >>
    /\ cyc[v].request.token = store.clerkToken
    /\ cyc[v].request.tone = ToneOf(store.replyTone, detectPlatform(hostname))
    /\ cyc[v].request.emojiBool = EmojisOf(store.enableEmojis)

\* ------------------------------------------------- the order within a cycle
\* C23 (Spec): in the cycle of every control the request is issued only after the one
\* extraction of the cycle has returned text that is not blank, and with that text; the
\* writer is called only after the request has settled with a successful answer that
\* holds a reply, and at most once in the cycle.
C23_ExtractThenGenerateThenInject ==
  \A u \in Units :
    /\ cyc[u].fills <= 1 /\ cyc[u].fetches <= 1 /\ cyc[u].extracts <= 1
    /\ (act[u].reading > 0 \/ cyc[u].reads > 0 \/ cyc[u].fetches > 0) =>
         /\ cyc[u].extracts = 1
         /\ ~TrimIsEmpty(cyc[u].text)
    /\ cyc[u].fetches > 0 => (cyc[u].reads = 1 /\ cyc[u].request.text = cyc[u].text)
    /\ cyc[u].fills > 0 =>
         /\ cyc[u].fetches = 1
         /\ act[u].fetching = 0
         /\ cyc[u].httpStatus >= 200 /\ cyc[u].httpStatus <= 299
         /\ cyc[u].reply # Undefined
         /\ cyc[u].err = NoError

\* a cycle has run through extraction, request and the writer
C23_Witness ==
  \E u \in Units :
    /\ cyc[u].extracts = 1 /\ cyc[u].fetches = 1 /\ cyc[u].fills = 1
    /\ cyc[u].httpStatus = 200
    /\ ControlState(ctl[u]) = "Success"

\* ------------------------------------------------- mark before attach
InsertPoints == {"actions", "lastChild", "unit"}

\* C24 (SpecScan): a unit for which a control has been created or inserted is in
\* processedPosts, in every reachable state and after every statement the scan executes
\* when it attaches a control to a unit it has not processed: the unit is added to the
\* set before the control is created and before it is inserted.
C24_MarkedBeforeAttached ==
  /\ \A u \in Units : (container[u] \/ created[u] > 0) => u \in processedPosts
  /\ \A u \in Units \ processedPosts : \A at \in InsertPoints :
       LET after == AttachStatements(u, ScanState, at) IN
       /\ \A i \in 1..Len(after) :
            (after[i].container[u] \/ after[i].created[u] > created[u]) =>
              u \in after[i].processed
       /\ after[Len(after)].container[u]
       /\ after[Len(after)].created[u] = created[u] + 1

\* a scan has attached a control to one unit, and the host has added another unit that
\* passes the filters and that the next scan will attach a control to
C24_Witness ==
  \E u, v \in Units :
    /\ created[u] = 1 /\ container[u] /\ u \in processedPosts
    /\ v \in inDoc /\ v \notin processedPosts /\ Eligible(v)

\* ------------------------------------------------- the eligibility filter
\* the scan of the platform shown runs its forEach body on the units of the document
ScanRuns ==
  \/ detectPlatform(hostname) = "linkedin"
  \/ detectPlatform(hostname) = "x" /\ isTwitterDetailView

\* the eligibility filter turns the unit away: a height below 100 on the professional
\* feed, a visible text of fewer than 10 characters on the microblog
TurnedAway(u) ==
  IF detectPlatform(hostname) = "linkedin" THEN kind[u].height < 100
  ELSE TextLength(kind[u].innerText) < 10

\* C25 (SpecRender): in a scan that runs, a unit of the document that is not processed and
\* holds no control is left out of processedPosts and gets no control when the filter of
\* the platform turns it away, and is marked and gets its control when it passes: a
\* unit turned away by an earlier scan gets its control in the scan after the host has
\* rendered it tall enough (professional feed) or with enough text (microblog).
C25_SkippedUnitStaysUnprocessed ==
  [][ScanStep /\ ScanRuns =>
       \A u \in inDoc :
         (u \notin processedPosts /\ ~container[u]) =>
           IF TurnedAway(u)
           THEN /\ u \notin processedPosts'
                /\ ~container'[u]
                /\ created'[u] = created[u]
                /\ u \in skipped'
           ELSE /\ u \in processedPosts'
                /\ container'[u]
                /\ created'[u] = created[u] + 1]_vars

\* a unit that a scan had turned away holds its one control after a later scan
C25_Witness ==
  \E u \in skipped :
    /\ u \in inDoc /\ u \in processedPosts
    /\ container[u] /\ created[u] = 1
    /\ ~TurnedAway(u)

\* ------------------------------------------------- the detail-view classifier
\* the address is one of a single content item
StatusAddress == url \in { a \in Urls : Includes(a, "/status/") }

\* the document holds exactly one tweet element, taller than 30% of the viewport
OneTallTweet ==
  /\ Cardinality(inDoc) = 1
  /\ \A u \in inDoc : 10 * kind[u].height > 3 * InnerHeight

\* C30 (SpecRender): isTwitterDetailView is true exactly when the address contains
\* /status/ or the document holds exactly one tweet element whose height exceeds 30% of
\* the viewport height; when it is false on the microblog, a scan changes nothing.
C30_DetailViewClassifier ==
  /\ isTwitterDetailView <=> (StatusAddress \/ OneTallTweet)
  /\ (detectPlatform(hostname) = "x" /\ ~(StatusAddress \/ OneTallTweet)) =>
       attachButtonsToPosts(ScanState) = ScanState

\* on the microblog, on an address without /status/, the only tweet of the document is
\* taller than 30% of the viewport and a scan has given it a control
C30_Witness ==
  /\ detectPlatform(hostname) = "x"
  /\ ~StatusAddress
  /\ OneTallTweet
  /\ \E u \in inDoc : container[u] /\ created[u] = 1

\* ------------------------------------------------- the disabled flag
\* C26 (Spec): the button of a control is disabled exactly while the control shows
\* Generating, Success or Error; the flag is set by the activation that takes the control
\* from Idle to Generating, and it is cleared only by a reset timer, which takes the
\* control from Success or Error to Idle.
C26_DisabledWhileBusy ==
  /\ [](\A u \in Units :
          ctl[u].disabled <=> ControlState(ctl[u]) \in {"Generating", "Success", "Error"})
  /\ [][\A u \in Units :
          /\ (~ctl[u].disabled /\ ctl'[u].disabled) =>
               /\ ControlState(ctl[u]) = "Idle"
               /\ budget'.clicks = budget.clicks - 1
               /\ IsPrefix(<< "Idle", "Generating" >>, cyc'[u].hist)
          /\ (ctl[u].disabled /\ ~ctl'[u].disabled) =>
               /\ act'[u].resets = act[u].resets - 1
               /\ ControlState(ctl[u]) \in {"Success", "Error"}
               /\ ControlState(ctl'[u]) = "Idle"]_vars

\* a control has run a whole cycle and its reset timer has enabled the button again
C26_Witness ==
  \E u \in Units :
    /\ created[u] = 1
    /\ cyc[u].hist = SuccessCycle
    /\ ~ctl[u].disabled
    /\ act[u].resets = 0

\* ------------------------------------------------- blank text
\* C27 (Spec): a cycle whose extraction returned no text or only white space has gone from
\* Generating to Error with the extraction error: it has called chrome.storage.local.get
\* never, issued no request and not called the writer.
C27_BlankTextFailsAtOnce ==
  \A u \in Units :
    (cyc[u].extracts = 1 /\ TrimIsEmpty(cyc[u].text)) =>
      /\ cyc[u].err = Err(MsgExtract)
      /\ cyc[u].hist = << "Idle", "Generating", "Error" >>
      /\ ControlState(ctl[u]) = "Error"
      /\ act[u].reading = 0 /\ cyc[u].reads = 0 /\ cyc[u].tokenRead = "<not read>"
      /\ act[u].fetching = 0 /\ cyc[u].fetches = 0 /\ cyc[u].request = NoRequest
      /\ act[u].pasting = 0 /\ cyc[u].fills = 0

\* a control was activated on a unit whose located text is white space, with a credential
\* in the store, and shows Error
C27_Witness ==
  \E u \in Units :
    /\ cyc[u].extracts = 1
    /\ cyc[u].text = << "   " >>
    /\ store.clerkToken # Undefined
    /\ ControlState(ctl[u]) = "Error"

\* ------------------------------------------------- the storage interface
\* the failure of generateReply before its request, by the error it throws
StoreFailure(e) ==
  IF e.msg = MsgNoStorage THEN "ConfigurationError"
  ELSE IF e.msg = MsgNoToken THEN "AuthError"
  ELSE IF e.msg \in {MsgLastError, MsgInvalidated} THEN "StoreReadError"
  ELSE "other"

\* the cycle of unit u has called generateReply and no read of the store has been started
GenerateStoppedBeforeRead(u) ==
  /\ cyc[u].extracts = 1 /\ ~TrimIsEmpty(cyc[u].text)
  /\ act[u].reading = 0 /\ cyc[u].reads = 0

\* C28 (Spec): when chrome.storage.local is missing, generateReply fails with the
\* configuration error without reading the store and without a request; no other failure
\* carries that error: a store without credential gives the authentication error after a
\* read, and a failed read gives the read error.
C28_MissingStorageIsConfigurationError ==
  \A u \in Units :
    /\ (GenerateStoppedBeforeRead(u) /\ storageApi = "missing") =>
         /\ StoreFailure(cyc[u].err) = "ConfigurationError"
         /\ cyc[u].fetches = 0 /\ act[u].fetching = 0
         /\ ControlState(ctl[u]) = "Error"
    /\ StoreFailure(cyc[u].err) = "ConfigurationError" =>
         (storageApi = "missing" /\ GenerateStoppedBeforeRead(u))
    /\ StoreFailure(cyc[u].err) = "AuthError" =>
         (cyc[u].reads = 1 /\ cyc[u].tokenRead = Undefined /\ cyc[u].fetches = 0)
    /\ (cyc[u].reads = 1 /\ cyc[u].tokenRead = Undefined) =>
         StoreFailure(cyc[u].err) = "AuthError"
    /\ (cyc[u].reads = 1 /\ cyc[u].tokenRead = "<not read>") =>
         StoreFailure(cyc[u].err) = "StoreReadError"

\* one control has failed for the missing storage interface while another has failed for
\* the missing credential
C28_Witness ==
  \E u, v \in Units :
    /\ storageApi = "missing"
    /\ GenerateStoppedBeforeRead(u)
    /\ cyc[u].err = Err(MsgNoStorage)
    /\ cyc[v].err = Err(MsgNoToken)

\* ------------------------------------------------- the tone
\* C29 (SpecStore): the tone of a request is the tone the store held when the cycle read
\* it; when the store held none it is "value" on the professional feed and "funny" on
\* the microblog.
C29_ToneSent ==
  \A u \in Units :
    cyc[u].request # NoRequest =>
      cyc[u].request.tone =
        ( IF cyc[u].toneRead \in Tones \ {Undefined} THEN cyc[u].toneRead
          ELSE IF hostname = "www.linkedin.com" THEN "value"
          ELSE "funny" )

\* on the microblog one request went out with the default tone, and after the popup has
\* stored a tone another one went out with the stored tone
C29_Witness ==
  \E u, v \in Units :
    /\ hostname = "x.com"
    /\ cyc[u].request # NoRequest /\ cyc[u].toneRead = Undefined
    /\ cyc[u].request.tone = "funny"
    /\ cyc[v].request # NoRequest /\ cyc[v].toneRead = "value"
    /\ cyc[v].request.tone = "value"

\* C32 (Spec): on the microblog, once the writer has found a composer and dispatched the
\* synthetic paste, a paste that the host ignored or that threw is followed by the typed
\* fallback: one insertion event per character of the reply, in order.
C32_TypedFallbackOnRejectOrThrow ==
  \A u \in Units :
    (detectPlatform(hostname) = "x" /\ cyc[u].paste \in PasteOutcomes \ {"inserted"})
      => cyc[u].typed = Chars(cyc[u].reply)

\* C36 (SpecClient): once the service has answered with a success status and the parsed
\* body held no reply string, the control shows Error and the writer was not called; a
\* control shows Success only after a success status with a reply string, with one call
\* of the writer; and the step that calls the writer passes it the reply of the answer,
\* which on the professional feed is the text the located box then holds.
C36_NoReplyIsError ==
  /\ [](\A u \in Units :
         /\ (cyc[u].httpStatus >= 200 /\ cyc[u].httpStatus <= 299 /\ cyc[u].reply = Undefined)
              => (ControlState(ctl[u]) = "Error" /\ cyc[u].fills = 0)
         /\ ControlState(ctl[u]) = "Success"
              => (cyc[u].reply \in Replies /\ cyc[u].fills = 1
                  /\ cyc[u].httpStatus >= 200 /\ cyc[u].httpStatus <= 299))
  /\ [][\A u \in Units :
          cyc'[u].fills > cyc[u].fills
            => /\ cyc'[u].reply \in Replies
               /\ (detectPlatform(hostname) = "linkedin" /\ cyc'[u].box # -1)
                    => boxText'[cyc'[u].box] = cyc'[u].reply]_vars

C36_Witness ==
  \E u \in Units :
    /\ cyc[u].httpStatus = 200
    /\ cyc[u].err = Err(MsgNoReply)
    /\ cyc[u].fills = 0
    /\ ControlState(ctl[u]) = "Error"

\* C31 (SpecLive): a control that was activated (it is disabled) returns to Idle and is
\* enabled again, given that the store read and the request settle and the timers fire;
\* as long as the generation call of a control has not settled, the control shows
\* Generating and is disabled; and a step of the cycle of one control leaves the look,
\* the cycle and the pending handlers of every other control as they were.
C31_ReturnsToIdle ==
  /\ \A u \in Units :
       ctl[u].disabled ~> (ControlState(ctl[u]) = "Idle" /\ ~ctl[u].disabled)
  /\ [](\A u \in Units :
         act[u].reading + act[u].fetching > 0
           => (ControlState(ctl[u]) = "Generating" /\ ctl[u].disabled))
  /\ [][\A u \in Units : \A v \in Units \ {u} :
          (cyc'[u] # cyc[u] \/ act'[u] # act[u])
            => (ctl'[v] = ctl[v] /\ cyc'[v] = cyc[v] /\ act'[v] = act[v])]_vars

C31_Witness ==
  \E u \in Units : \E v \in Units \ {u} :
    /\ cyc[u].hist = ErrorCycle /\ ~ctl[u].disabled /\ Pending(u) = 0
    /\ act[v].fetching > 0 /\ ctl[v].disabled

\* no scan is pending: no mutation record waits for the observer callback and neither
\* scan timer is set
NoScanPending == ~pendingRecords /\ initTimer = NoTimer /\ mutationTimeout = NoTimer

\* C34 (SpecLive): the controls a scan inserts and the status texts a cycle changes are
\* recorded by the structural observer and set its timer again, and still, once the host
\* page and the user have stopped and the cycles have ended, the scans stop: from some
\* moment on no scan is pending, for good.
C34_FeedbackTerminates == <>[](NoScanPending /\ \A u \in Units : Pending(u) = 0)

C34_Witness ==
  /\ NoScanPending
  /\ \E u \in Units : created[u] > 0 /\ cyc[u].hist \in {SuccessCycle, ErrorCycle} /\ Pending(u) = 0
  /\ budget.clicks = 0 /\ budget.hostOps = 0

\* a scan is on its way: the structural observer holds a batch of records, or one of
\* the three scan timers is set
ScanOnItsWay ==
  pendingRecords \/ initTimer # NoTimer \/ mutationTimeout # NoTimer \/ navTimers # << >>

\* the host page has made its last change of the document and of the address
HostSettled == budget.hostOps = 0 /\ budget.nav = 0

\* C33 (SpecWatch): a unit that is in the document and eligible when the host page has
\* made its last change, with a scan on its way (the initial timer, a batch of the
\* structural observer or its debounce timer, a navigation rescan), gets a control
\* created for it; and controls are created by the steps of those three timers only.
C33_EligibleUnitIsReached ==
  /\ \A u \in Units :
       (u \in inDoc /\ Eligible(u) /\ HostSettled /\ ScanOnItsWay) ~> (created[u] > 0)
  /\ [][(created' # created) => ScanStep]_vars

C33_Witness ==
  \E u \in skipped :
    /\ u \in inDoc /\ Eligible(u) /\ HostSettled /\ ~ScanOnItsWay
    /\ created[u] > 0 /\ container[u]

\* the controls in the subtree of unit w: its own, those of the units rendered inside
\* it, and the one of its parent when that lies in the actions area of w
ControlsBeneath(w) ==
  { u \in Units :
      /\ container[u]
      /\ \/ u = w
         \/ (u \in inDoc /\ kind[u].parent = w)
         \/ (kind[w].parent = u /\ ctl[u].at = "nestedActions") }

\* C35 (SpecNested): with one candidate unit rendered inside another, once the scans
\* have run (no scan is pending), the subtree of every unit of the document holds at
\* most one control, and every eligible unit is in processedPosts with its own control
\* or has exactly one control beneath it.
C35_OneControlPerSubtree ==
  NoScanPending =>
    \A w \in inDoc :
      /\ Cardinality(ControlsBeneath(w)) <= 1
      /\ Eligible(w) => \/ (w \in processedPosts /\ container[w])
                        \/ Cardinality(ControlsBeneath(w)) = 1

\* the message passes the checks of the listener it was sent to
PassesChecks(m) ==
  /\ m.data # Null
  /\ m.data.token \notin {Undefined, "", NonString}
  /\ \/ /\ m.via = "bridge"
        /\ m.origin = DashboardOrigin
        /\ m.data.type = "REPLIER_EXTENSION"
        /\ m.data.action = "STORE_TOKEN"
     \/ /\ m.via = "external"
        /\ m.data.action = "storeToken"

\* what a step does to the store: it changes it only by completing the pending write of
\* a message that passes the checks; a completed write leaves the token of its message,
\* a failed write leaves the store as it was
StoreStep ==
  /\ (store' # store) =>
       (\E i \in 1..Len(received) :
          /\ received[i].write = "pending" /\ received'[i].write = "stored"
          /\ PassesChecks(received[i]))
  /\ \A i \in 1..Len(received) :
       (received[i].write = "pending" /\ received'[i].write = "stored") =>
         (store'.clerkToken = received[i].data.token)
  /\ \A i \in 1..Len(received) :
       (received[i].write = "pending" /\ received'[i].write = "failed") => (store' = store)

\* C37 (SpecPeers): a write of the credential is issued for a message exactly when the
\* message passes the checks of its listener, and it carries the token of that message;
\* the store changes only in the step that completes such a write, never in the step
\* that receives a message; and when the write of a message completes without a store
\* error, the stored credential is the token of that message.
C37_OnlyCheckedTokensStored ==
  /\ [](/\ \A i \in 1..Len(received) : (received[i].write # "none") = PassesChecks(received[i])
        /\ \A j \in 1..Len(setQueue) :
             /\ received[setQueue[j].msg].write = "pending"
             /\ setQueue[j].token = received[setQueue[j].msg].data.token)
  /\ [][StoreStep]_vars

C37_Witness ==
  \E i \in 1..Len(received) :
    /\ PassesChecks(received[i])
    /\ received[i].via = "bridge"
    /\ received[i].write = "stored"
    /\ store.clerkToken = received[i].data.token

\* the listener and the write of message i have run to their end
Settled(i) == received[i].write # "pending"

\* C38 (SpecPeers): sendResponse is never called twice for an external message, and once
\* the listener and its write have run to their end it was called exactly once: after a
\* storeToken write with success or the error of the store, otherwise with "Unknown
\* action".
C38_RespondsExactlyOnce ==
  \A i \in 1..Len(received) :
    (received[i].via = "external") =>
      /\ Len(received[i].responses) <= 1
      /\ (Settled(i) => Len(received[i].responses) = 1)
      /\ (Settled(i) /\ Len(received[i].responses) = 1) =>
           (IF PassesChecks(received[i])
            THEN received[i].responses[1] \in {"Token stored successfully", "<lastError.message>"}
            ELSE received[i].responses[1] = "Unknown action")

\* C39 (SpecPeers): once the popup has checked the credential and the store held one, the
\* login prompt is hidden and the status reads Connected, whatever the shape of the token.
C39_TokenMeansAuthenticated ==
  (popup.checked /\ Truthy(popup.token)) =>
    (popup.authSection = "hidden" /\ popup.statusText = "Connected")

====
